---------------------------- MODULE Spec2Model ----------------------------
(***************************************************************************)
(* A model of go-kvstore: the concurrent in-memory Store (kvstore/store.go)*)
(* with its entries (kvstore/value.go), the filesystem persister           *)
(* (persistence/fs_persistence.go) and the buffered persister              *)
(* (persistence/buffered_persistence.go).                                  *)
(*                                                                         *)
(* Byte slices and keys are sequences of one-character strings; the nil    *)
(* slice is the empty sequence (callers of the model never Set an empty    *)
(* payload).  Time is counted in whole seconds.  int64 is scaled down to   *)
(* IntBits bits and keeps its two's-complement wrap-around.                *)
(***************************************************************************)
EXTENDS Integers, Sequences, FiniteSets, TLC

VARIABLES
    cfg,      \* the options the Store was constructed with
    now,      \* the value kv.nowFunc() returns
    data,     \* kv.data: key -> ValueItem (a function on the tracked keys)
    ps,       \* kv.persistence: the backing stores, in configuration order
    pc,       \* per caller: where it is inside Get
    loc,      \* per caller: the locals of its Get
    sweep,    \* the eviction task: between its scan and its mutation phase
    crashed,  \* the process died of a panic
    nops,     \* number of operations issued so far
    last,     \* the last operation that returned, with what it returned
    g         \* history: what callers have written, deleted, counted

vars == <<cfg, now, data, ps, pc, loc, sweep, crashed, nops, last, g>>

---------------------------------------------------------------------------
(* Bounds of the model *)

IntBits == 4
MaxTime == 3
MaxOps == 4
NumCallers == 2
BufferSize == 2

Callers == 1..NumCallers

---------------------------------------------------------------------------
(* Small helpers on finite functions (Go maps) *)

Put(f, k, v) == [x \in (DOMAIN f) \cup {k} |-> IF x = k THEN v ELSE f[x]]

Drop(f, ks) == [x \in (DOMAIN f) \ ks |-> f[x]]

EmptyMap == [x \in {} |-> 0]

---------------------------------------------------------------------------
(* int64, strconv.ParseInt and fmt.Sprintf("%d") *)

MaxInt64 == 2^(IntBits - 1) - 1

MinInt64 == -(2^(IntBits - 1))

\* a faulty wrap, one too high: C6 must tell it from Wrap
WrapOffByOne(i) == ((i - MinInt64) % (2^IntBits)) + MinInt64 + 1

\* two's-complement wrap of a mathematical integer into int64
Wrap(i) == ((i - MinInt64) % (2^IntBits)) + MinInt64

DigitChars == <<"0", "1", "2", "3", "4", "5", "6", "7", "8", "9">>

IsDigit(c) == \E i \in 1..10 : DigitChars[i] = c

DigitVal(c) == (CHOOSE i \in 1..10 : DigitChars[i] = c) - 1

RECURSIVE ParseDigits(_, _)
ParseDigits(s, acc) ==
    IF s = <<>> THEN acc
    ELSE ParseDigits(Tail(s), acc * 10 + DigitVal(Head(s)))

\* strconv.ParseInt(string(b), 10, 64): an optional sign, then one or more
\* decimal digits, and the value must fit int64
ParseInt(s) ==
    LET signed == s # <<>> /\ Head(s) \in {"+", "-"}
        neg    == s # <<>> /\ Head(s) = "-"
        body   == IF signed THEN Tail(s) ELSE s
        syntax == body # <<>> /\ \A i \in 1..Len(body) : IsDigit(body[i])
        mag    == IF syntax THEN ParseDigits(body, 0) ELSE 0
        val    == IF neg THEN -mag ELSE mag
    IN  IF syntax /\ val >= MinInt64 /\ val <= MaxInt64
        THEN [ok |-> TRUE, val |-> val]
        ELSE [ok |-> FALSE, val |-> 0]

RECURSIVE Digits(_)
Digits(n) ==
    IF n < 10 THEN <<DigitChars[n + 1]>>
    ELSE Digits(n \div 10) \o <<DigitChars[(n % 10) + 1]>>

\* fmt.Sprintf("%d", i)
FormatInt(i) == IF i < 0 THEN <<"-">> \o Digits(-i) ELSE Digits(i)

---------------------------------------------------------------------------
(* Key validation *)

Letters == {"a", "b", "k", "x"}

IsLetter(c) == c \in Letters

validRunes == {":", "@", "#", "+", "-", "_"}

KeyValid(key) ==
    \A i \in 1..Len(key) :
        IsLetter(key[i]) \/ IsDigit(key[i]) \/ key[i] \in validRunes

---------------------------------------------------------------------------
(* Errors, by the message the code builds *)

ErrNil == "nil"
ErrKeyInvalid == "key contains invalid characters"
ErrNotFoundErr == "key not found"
\* the error of backing store id, wrapped by persist and by delete: the
\* message names the folder of the store that failed
ErrWrite == <<"d.Write: store 1", "d.Write: store 2">>
ErrDelete == <<"p.Delete: store 1", "p.Delete: store 2">>
ErrCounterSetData == "Store.Counter kv.setData"
ErrCounterParse == "Store.Counter strconv.ParseInt"
ErrCounterMax == "Store.Counter maximum value reached"
ErrCounterMin == "Store.Counter minimum value reached"
ErrLimitsNoKey == "Store.SetCounterLimits key does not exist"
ErrLimitsNotCounter == "Store.SetCounterLimits key is not a counter"
ErrPersistNoKey == "persist key does not exist"
ErrReadMeta == "Filesystem.Read os.ReadFile metadata"
ErrReadData == "Filesystem.Read os.ReadFile"
ErrBufferRead == "Buffer.Read"
ErrKeys == "Filesystem.Keys"

---------------------------------------------------------------------------
(* ValueItem *)

TTLKeyNotExist == -2
TTLNoExpirySet == -1

NilData == <<>>

\* Counter == nil
NoCounter == [set |-> FALSE, Min |-> 0, Max |-> 0]

FullCounter == [set |-> TRUE, Min |-> MinInt64, Max |-> MaxInt64]

\* the zero ValueItem
ZeroItem ==
    [Data |-> NilData, Counter |-> NoCounter, Ts |-> 0, TTL |-> 0,
     dataLoaded |-> FALSE]

NewValueItem(dataBytes, ts) ==
    [Data |-> dataBytes,
     Counter |-> IF ParseInt(dataBytes).ok THEN FullCounter ELSE NoCounter,
     Ts |-> ts, TTL |-> TTLNoExpirySet, dataLoaded |-> TRUE]

\* a faulty SetData that forgets the bounds when the payload is not a
\* number: C32 must tell it from SetData
SetDataTyped(mv, dataBytes) ==
    [mv EXCEPT !.Counter = IF ~ParseInt(dataBytes).ok THEN NoCounter
                           ELSE IF mv.Counter.set THEN @ ELSE FullCounter,
               !.Data = dataBytes,
               !.dataLoaded = TRUE]

SetData(mv, dataBytes) ==
    [mv EXCEPT !.Counter = IF ParseInt(dataBytes).ok /\ ~mv.Counter.set
                           THEN FullCounter ELSE @,
               !.Data = dataBytes,
               !.dataLoaded = TRUE]

\* mv.SetData(data, kv.nowFunc()) as store.go calls it: the payload, and the
\* timestamp of the write
SetDataAt(mv, dataBytes, ts) == [SetData(mv, dataBytes) EXCEPT !.Ts = ts]

expired(mv, t) == IF mv.TTL <= 0 THEN FALSE ELSE mv.Ts + mv.TTL < t

unload(mv, t, unloadAfter) ==
    IF unloadAfter = 0 THEN FALSE ELSE t - mv.Ts > unloadAfter

---------------------------------------------------------------------------
(* References to a ValueItem.  The Store hands *ValueItem pointers to its  *)
(* persisters and keeps them in Get's locals.  A reference is live while   *)
(* the object it points to is the one kv.data holds for that key; when the *)
(* map entry is removed or replaced, the object can no longer change, and  *)
(* every reference to it is frozen to the object's last value.             *)

LiveRef == [live |-> TRUE, e |-> ZeroItem]

Frozen(e) == [live |-> FALSE, e |-> e]

Deref(ref, d, key) == IF ref.live THEN d[key] ELSE ref.e

FreezeRef(ref, refKey, key, e) ==
    IF ref.live /\ refKey = key THEN Frozen(e) ELSE ref

---------------------------------------------------------------------------
(* The filesystem persister: one folder per key, holding metadata.json and *)
(* data.bin.  A persister is [buffered, dirs, meta, dat, queue].           *)

\* what json.Marshal keeps of a ValueItem (Data and dataLoaded are left out)
Meta(mv) == [Counter |-> mv.Counter, Ts |-> mv.Ts, TTL |-> mv.TTL]

FromMeta(m) ==
    [Data |-> NilData, Counter |-> m.Counter, Ts |-> m.Ts, TTL |-> m.TTL,
     dataLoaded |-> FALSE]

fsKeys(p) == p.dirs

fsWrite(p, key, mv) ==
    [p EXCEPT !.dirs = @ \cup {key},
              !.meta = Put(@, key, Meta(mv)),
              !.dat = IF mv.Data = NilData THEN @ ELSE Put(@, key, mv.Data)]

fsDelete(p, key) ==
    [p EXCEPT !.dirs = @ \ {key},
              !.meta = Drop(@, {key}),
              !.dat = Drop(@, {key})]

fsRead(p, key, readValue) ==
    IF key \notin DOMAIN p.meta THEN [mv |-> ZeroItem, err |-> ErrReadMeta]
    ELSE IF ~readValue THEN [mv |-> FromMeta(p.meta[key]), err |-> ErrNil]
    ELSE IF key \notin DOMAIN p.dat THEN [mv |-> ZeroItem, err |-> ErrReadData]
    ELSE [mv |-> SetData(FromMeta(p.meta[key]), p.dat[key]), err |-> ErrNil]

---------------------------------------------------------------------------
(* The buffered persister: a bounded channel of commands and one consumer  *)

writeCommand == 1
deleteCommand == 2
readMetadataCommand == 3
readValueCommand == 4

Command(cmdType, key, ref, tid) ==
    [cmdType |-> cmdType, key |-> key, mv |-> ref, tid |-> tid]

\* Buffer.Write: the command carries the pointer it was given
bufWrite(p, key) ==
    [p EXCEPT !.queue = Append(@, Command(writeCommand, key, LiveRef, 0))]

bufDelete(p, key) ==
    [p EXCEPT !.queue = Append(@, Command(deleteCommand, key, Frozen(ZeroItem), 0))]

\* Buffer.Read, up to the send on b.cb; tid owns the response channel
bufRead(p, key, readValue, tid) ==
    [p EXCEPT !.queue =
        Append(@, Command(IF readValue THEN readValueCommand
                          ELSE readMetadataCommand, key, Frozen(ZeroItem), tid))]

\* Buffer.processCommand on the backing store, for a Write or a Delete
processCommand(p, d, command) ==
    IF command.cmdType = writeCommand
    THEN fsWrite(p, command.key, Deref(command.mv, d, command.key))
    ELSE IF command.cmdType = deleteCommand
    THEN fsDelete(p, command.key)
    ELSE p

\* the response processCommand sends for a Read
processRead(p, command) ==
    fsRead(p, command.key, command.cmdType = readValueCommand)

\* what Buffer.Read returns for the response r
bufReadReturn(r) ==
    IF r.err # ErrNil THEN [mv |-> ZeroItem, err |-> ErrBufferRead] ELSE r

FreezeQueue(p, key, e) ==
    [p EXCEPT !.queue =
        [i \in DOMAIN p.queue |->
            Command(p.queue[i].cmdType, p.queue[i].key,
                    FreezeRef(p.queue[i].mv, p.queue[i].key, key, e),
                    p.queue[i].tid)]]

---------------------------------------------------------------------------
(* A DataPersister as the Store sees it: buffered or called directly.      *)
(* failed: the backing store's call returns an error (direct call only).  *)

pWrite(p, key, mv, failed) ==
    IF p.buffered THEN bufWrite(p, key)
    ELSE IF failed THEN p
    ELSE fsWrite(p, key, mv)

pDelete(p, key, failed) ==
    IF p.buffered THEN bufDelete(p, key)
    ELSE IF failed THEN p
    ELSE fsDelete(p, key)

\* a faulty Buffer that hands the failure of its backing store to the
\* caller of Write and Delete: C24 must tell it from Fails
FailsThroughBuffer(pss, i, fail) == i \in fail

\* whether persister i answers this call with an error
Fails(pss, i, fail) == ~pss[i].buffered /\ i \in fail

\* returnError after a loop over the first i persisters that assigns it at
\* every failure: the error of the last persister that failed, from the
\* wrapped errors errs of the backing stores
RECURSIVE returnError(_, _, _, _)
returnError(pss, fail, errs, i) ==
    IF i = 0 THEN ErrNil
    ELSE IF Fails(pss, i, fail) THEN errs[pss[i].id]
    ELSE returnError(pss, fail, errs, i - 1)

---------------------------------------------------------------------------
(* The Store's operations, as functions of the map d, the persisters pss,  *)
(* the time t and the set fail of persisters whose call fails.  Each gives *)
(* the new map and persisters and what the caller gets back.               *)

Result(d, pss, err, ret) == [data |-> d, ps |-> pss, err |-> err, ret |-> ret]

\* a faulty persist that gives up at the first Write that fails: C17 must
\* tell it from persist
persistUntilFailure(d, pss, key, fail) ==
    IF Len(pss) = 0 THEN [ps |-> pss, err |-> ErrNil]
    ELSE IF key \notin DOMAIN d THEN [ps |-> pss, err |-> ErrPersistNoKey]
    ELSE [ps |-> [i \in DOMAIN pss |->
                    IF \E j \in 1..(i - 1) : Fails(pss, j, fail) THEN pss[i]
                    ELSE pWrite(pss[i], key, d[key], Fails(pss, i, fail))],
          err |-> returnError(pss, fail, ErrWrite, Len(pss))]

persist(d, pss, key, fail) ==
    IF Len(pss) = 0 THEN [ps |-> pss, err |-> ErrNil]
    ELSE IF key \notin DOMAIN d THEN [ps |-> pss, err |-> ErrPersistNoKey]
    ELSE [ps |-> [i \in DOMAIN pss |->
                    pWrite(pss[i], key, d[key], Fails(pss, i, fail))],
          err |-> returnError(pss, fail, ErrWrite, Len(pss))]

setData(d, pss, key, dataBytes, t, fail) ==
    LET mv0 == IF key \in DOMAIN d THEN d[key] ELSE NewValueItem(dataBytes, t)
        mv  == SetDataAt(mv0, dataBytes, t)
        d2  == Put(d, key, mv)
        w   == persist(d2, pss, key, fail)
    IN  Result(d2, w.ps, w.err, 0)

delete(d, pss, key, fail) ==
    IF key \notin DOMAIN d THEN Result(d, pss, ErrNotFoundErr, 0)
    ELSE Result(Drop(d, {key}),
                [i \in DOMAIN pss |->
                    pDelete(FreezeQueue(pss[i], key, d[key]), key,
                            Fails(pss, i, fail))],
                returnError(pss, fail, ErrDelete, Len(pss)),
                0)

setTTL(d, pss, key, ttl, fail) ==
    IF key \notin DOMAIN d THEN Result(d, pss, ErrNotFoundErr, 0)
    ELSE LET d2 == [d EXCEPT ![key].TTL = ttl]
             w  == persist(d2, pss, key, fail)
         IN  Result(d2, w.ps, w.err, 0)

StoreSet(d, pss, key, value, t, fail) ==
    IF ~KeyValid(key) THEN Result(d, pss, ErrKeyInvalid, 0)
    ELSE setData(d, pss, key, value, t, fail)

StoreDelete(d, pss, key, fail) == delete(d, pss, key, fail)

StoreInMemory(d, key) ==
    IF key \notin DOMAIN d THEN FALSE ELSE d[key].dataLoaded

\* a faulty Keys that fills every slot with the first key ranged over: C10
\* must tell it from StoreKeys
StoreKeysFirst(d, order) == [idx \in 1..Cardinality(DOMAIN d) |-> order[1]]

\* Keys fills a slice of len(kv.data) in the order the map is ranged over
StoreKeys(d, order) == [idx \in 1..Cardinality(DOMAIN d) |-> order[idx]]

StoreSetTTL(d, pss, key, ttl, fail) ==
    IF ~KeyValid(key) THEN Result(d, pss, ErrKeyInvalid, 0)
    ELSE setTTL(d, pss, key, ttl, fail)

StoreTTL(d, key, t) ==
    IF ~KeyValid(key) THEN TTLKeyNotExist
    ELSE IF key \notin DOMAIN d THEN TTLKeyNotExist
    ELSE LET ttl == (d[key].Ts + d[key].TTL) - t
         IN  IF ttl < 0 THEN 0 ELSE ttl

\* a faulty Touch that leaves the timestamp alone: C12 must tell it from
\* StoreTouch
StoreTouchNoStamp(d, pss, key, t, fail) ==
    IF ~KeyValid(key) THEN Result(d, pss, ErrKeyInvalid, 0)
    ELSE IF key \notin DOMAIN d \/ expired(d[key], t)
    THEN Result(d, pss, ErrNotFoundErr, 0)
    ELSE LET w == persist(d, pss, key, fail)
         IN  Result(d, w.ps, w.err, 0)

StoreTouch(d, pss, key, t, fail) ==
    IF ~KeyValid(key) THEN Result(d, pss, ErrKeyInvalid, 0)
    ELSE IF key \notin DOMAIN d \/ expired(d[key], t)
    THEN Result(d, pss, ErrNotFoundErr, 0)
    ELSE LET d2 == [d EXCEPT ![key].Ts = t]
             w  == persist(d2, pss, key, fail)
         IN  Result(d2, w.ps, w.err, 0)

StoreCounter(d, pss, key, delta, t, fail) ==
    IF ~KeyValid(key) THEN Result(d, pss, ErrKeyInvalid, 0)
    ELSE IF key \notin DOMAIN d
    THEN LET r == setData(d, pss, key, FormatInt(delta), t, fail)
         IN  IF r.err # ErrNil
             THEN Result(r.data, r.ps, ErrCounterSetData, 0)
             ELSE Result(r.data, r.ps, ErrNil, delta)
    ELSE LET mv == d[key]
             p  == ParseInt(mv.Data)
             i  == Wrap(p.val + delta)
         IN  IF ~p.ok THEN Result(d, pss, ErrCounterParse, 0)
             \* errors.Wrap(nil, ...) is nil
             ELSE IF ~mv.Counter.set THEN Result(d, pss, ErrNil, 0)
             ELSE IF i > mv.Counter.Max THEN Result(d, pss, ErrCounterMax, 0)
             ELSE IF i < mv.Counter.Min THEN Result(d, pss, ErrCounterMin, 0)
             ELSE LET r == setData(d, pss, key, FormatInt(i), t, fail)
                  IN  IF r.err # ErrNil
                      THEN Result(r.data, r.ps, ErrCounterMin, 0)
                      ELSE Result(r.data, r.ps, ErrNil, i)

StoreSetCounterLimits(d, pss, key, min, max, fail) ==
    IF ~KeyValid(key) THEN Result(d, pss, ErrKeyInvalid, 0)
    ELSE IF key \notin DOMAIN d THEN Result(d, pss, ErrLimitsNoKey, 0)
    ELSE IF ~d[key].Counter.set THEN Result(d, pss, ErrLimitsNotCounter, 0)
    ELSE LET d2 == [d EXCEPT ![key].Counter =
                        [set |-> TRUE, Min |-> min, Max |-> max]]
             w  == persist(d2, pss, key, fail)
         IN  Result(d2, w.ps, w.err, 0)

\* the entries read from the first persister, one for each key it lists
Reloaded(pss, t) ==
    [k \in fsKeys(pss[1]) |->
        LET r == fsRead(pss[1], k, FALSE)
        IN  IF r.err # ErrNil
            THEN [ZeroItem EXCEPT !.Ts = t]
            ELSE r.mv]

\* a faulty start that hands the failure of Keys() to the caller: C19 must
\* tell it from initialisePersistenceControllers
initialiseOrFail(pss, t, keysFail) ==
    IF Len(pss) = 0 THEN [data |-> EmptyMap, err |-> ErrNil]
    ELSE IF keysFail THEN [data |-> EmptyMap, err |-> ErrKeys]
    ELSE [data |-> Reloaded(pss, t), err |-> ErrNil]

\* initialisePersistenceControllers: the map a new Store starts with and
\* the error NewStore returns; keysFail: Keys() of the first persister fails
initialisePersistenceControllers(pss, t, keysFail) ==
    IF Len(pss) = 0 THEN [data |-> EmptyMap, err |-> ErrNil]
    ELSE IF keysFail THEN [data |-> EmptyMap, err |-> ErrNil]
    ELSE [data |-> Reloaded(pss, t), err |-> ErrNil]

---------------------------------------------------------------------------
(* History kept beside the program's state *)

NoExp == [has |-> FALSE, v |-> NilData]

Expect(v) == [has |-> TRUE, v |-> v]

NoRes == [mv |-> ZeroItem, err |-> ErrNil]

\* a caller's locals inside Get: the key, the pointer it looked up, the
\* answer of the cold read; and, for the history, what the call should
\* return (exp), whether a Delete of the key had returned before the call
\* (del) and whether the entry was unloaded when it was looked up (cold)
IdleLoc ==
    [key |-> <<>>, ref |-> Frozen(ZeroItem), res |-> NoRes, exp |-> NoExp,
     del |-> FALSE, cold |-> FALSE, readValue |-> FALSE]

\* the record of an operation that returned
Returned(op, key) ==
    [op |-> op, key |-> key, err |-> ErrNil, val |-> NilData, num |-> 0,
     flag |-> FALSE, keys |-> <<>>, argv |-> NilData, arg |-> 0, lo |-> 0,
     hi |-> 0, existed |-> FALSE, pre |-> ZeroItem, changed |-> FALSE,
     inmem |-> FALSE, exp |-> NoExp, del |-> FALSE, cold |-> FALSE,
     failed |-> FALSE, fails |-> {}, dom |-> {}]

\* g.written: the payload last written for a key that was not deleted since
\* g.setv:    the payload of the last Set that returned success, for a key
\*            that has not expired, been deleted or been overwritten since
\* g.deleted: the keys a Delete returned for and that were not created since
\* g.ctr:     for a counter, its first value plus the deltas of the Counter
\*            calls that returned success
\* g.everDel: some key was deleted, by a caller or by the eviction task
\* g.before:  if the call that returned before the last one was a Counter
\*            that returned success: its key, its delta and the entry it
\*            found
NoBefore ==
    [has |-> FALSE, key |-> <<>>, arg |-> 0, existed |-> FALSE,
     pre |-> ZeroItem]

Before(l) ==
    IF l.op = "Counter" /\ l.err = ErrNil
    THEN [has |-> TRUE, key |-> l.key, arg |-> l.arg, existed |-> l.existed,
          pre |-> l.pre]
    ELSE NoBefore

NoHistory ==
    [written |-> EmptyMap, setv |-> EmptyMap, deleted |-> {},
     ctr |-> EmptyMap, everDel |-> FALSE, before |-> NoBefore]

\* no caller is inside Get
Quiet == \A t \in Callers : pc[t] = "idle"

\* a caller's Get holds a pointer to the entry of a key in gone: freeze it
FreezeLocs(l, pcs, gone, d) ==
    [t \in DOMAIN l |->
        IF pcs[t] \in {"getData", "getLoaded"} /\ l[t].key \in gone
           /\ l[t].key \in DOMAIN d
        THEN [l[t] EXCEPT !.ref = FreezeRef(@, l[t].key, l[t].key, d[l[t].key])]
        ELSE l[t]]

\* g.setv keeps the keys that are still tracked and unexpired in map d at
\* time t; a Get in flight no longer expects a value if g.setv dropped its
\* key or if its key is in hit (it was written or deleted meanwhile), and
\* no longer counts as issued after a Delete if its key was created again
Settle(gg, l, d, t, hit) ==
    LET keep == {k \in DOMAIN gg.setv : k \in DOMAIN d /\ ~expired(d[k], t)}
    IN  [g |-> [gg EXCEPT !.setv = [k \in keep |-> gg.setv[k]]],
         loc |-> [c \in DOMAIN l |->
                    [l[c] EXCEPT
                        !.exp = IF l[c].key \in keep /\ l[c].key \notin hit
                                THEN @ ELSE NoExp,
                        !.del = @ /\ l[c].key \in gg.deleted]]]

\* the key's payload was written (asSet: by a Set that returned success)
Wrote(gg, key, value, asSet) ==
    [gg EXCEPT !.written = Put(@, key, value),
               !.setv = IF asSet THEN Put(@, key, value) ELSE Drop(@, {key}),
               !.ctr = IF asSet /\ ParseInt(value).ok /\ Quiet
                       THEN Put(@, key, ParseInt(value).val)
                       ELSE Drop(@, {key}),
               !.deleted = @ \ {key}]

Removed(gg, keys, byDelete) ==
    [gg EXCEPT !.written = Drop(@, keys),
               !.setv = Drop(@, keys),
               !.ctr = Drop(@, keys),
               !.deleted = IF byDelete THEN @ \cup keys ELSE @,
               !.everDel = @ \/ keys # {}]

QueuesFit(pss) == \A i \in DOMAIN pss : Len(pss[i].queue) <= BufferSize

\* a locked operation returns: r is what it computed, lst what it returned,
\* gg the history after it, gone the keys whose entries left the map, hit
\* the keys it wrote or deleted
Commit(r, lst, gg, gone, hit) ==
    /\ QueuesFit(r.ps)
    /\ data' = r.data
    /\ ps' = r.ps
    /\ LET s == Settle(gg, FreezeLocs(loc, pc, gone, data), r.data, now, hit)
       IN  g' = [s.g EXCEPT !.before = Before(last)] /\ loc' = s.loc
    /\ last' = [lst EXCEPT !.changed = (r.data # data \/ r.ps # ps),
                           !.inmem = StoreInMemory(r.data, lst.key),
                           !.dom = DOMAIN r.data]
    /\ nops' = nops + 1
    /\ UNCHANGED <<cfg, now, pc, sweep, crashed>>

---------------------------------------------------------------------------
(* What the callers of the model do.  cfg.keysOf gives each caller the    *)
(* keys it uses; only Get spans several steps, so only the callers inside *)
(* Get are counted.                                                        *)

K1 == <<"k">>

\* a key KeyValid rejects
BadKey == <<" ">>

\* the key of caller t when callers work on pairwise distinct keys
CallerKey(t) == <<DigitChars[t + 1]>>

AllKeys == UNION {cfg.keysOf[t] : t \in Callers}

FailSets == IF cfg.canFail THEN SUBSET (DOMAIN ps) ELSE {{}}

Perms(S) ==
    {f \in [1..Cardinality(S) -> S] :
        \A i, j \in 1..Cardinality(S) : i # j => f[i] # f[j]}

Entry(d, key) == IF key \in DOMAIN d THEN d[key] ELSE ZeroItem

\* the record of a call on key, before it runs
Called(op, key, fail) ==
    [Returned(op, key) EXCEPT !.existed = key \in DOMAIN data,
                              !.pre = Entry(data, key),
                              !.failed = fail # {},
                              !.fails = fail]

CanCall == ~crashed /\ nops < MaxOps

\* backing store number id, over an empty folder.  closed: Close() of the
\* filesystem persister was called.  Of its Buffer, when it has one: queue
\* is b.cb, open: b.cb is not closed, cancelled: the consumer's context is
\* done, running: the consumer has not returned, inflight: the command the
\* consumer has received and not yet processed
NewPersister(id, buffered) ==
    [id |-> id, buffered |-> buffered, dirs |-> {}, meta |-> EmptyMap,
     dat |-> EmptyMap, queue |-> <<>>, closed |-> FALSE, open |-> buffered,
     cancelled |-> FALSE, running |-> buffered, inflight |-> <<>>]

\* the option replaces the persisters the Store was given before
WithPersistenceOption(s, persistence) == persistence

\* kv.persistence after NewStore has applied the options in order
RECURSIVE Configure(_, _)
Configure(s, options) ==
    IF options = <<>> THEN s
    ELSE Configure(WithPersistenceOption(s, Head(options)), Tail(options))

\* the eviction task waiting in its select; cancelled: kv.ctx is done
IdleSweep ==
    [pc |-> "idle", deletionKeys |-> {}, unloadKeys |-> {}, cancelled |-> FALSE]

\* NewStore with the options of c; keysFail: the first persister cannot
\* list its keys
InitAs(c, keysFail) ==
    /\ cfg = c
    /\ now = 0
    /\ ps = Configure(<<>>, c.options)
    /\ LET r == initialisePersistenceControllers(ps, now, keysFail)
       IN  /\ data = r.data
           /\ last = [Returned("NewStore", <<>>) EXCEPT
                        !.err = r.err, !.failed = keysFail]
    /\ pc = [t \in Callers |-> "idle"]
    /\ loc = [t \in Callers |-> IdleLoc]
    /\ sweep = IdleSweep
    /\ crashed = FALSE
    /\ nops = 0
    /\ g = NoHistory

\* NewStore with the options of c, over backing stores that can be listed
InitWith(c) == InitAs(c, FALSE)

---------------------------------------------------------------------------
(* The operations that run under the Store's lock from call to return *)

Set(key, value, fail) ==
    /\ CanCall
    /\ LET r == StoreSet(data, ps, key, value, now, fail)
       IN  Commit(r,
                  [Called("Set", key, fail) EXCEPT !.err = r.err, !.argv = value],
                  IF KeyValid(key)
                  THEN Wrote(g, key, value, r.err = ErrNil) ELSE g,
                  {},
                  IF KeyValid(key) THEN {key} ELSE {})

Delete(key, fail) ==
    /\ CanCall
    /\ LET r == StoreDelete(data, ps, key, fail)
           gone == {key} \cap DOMAIN data
       IN  Commit(r, [Called("Delete", key, fail) EXCEPT !.err = r.err],
                  Removed(g, gone, TRUE), gone, gone)

SetTTL(key, ttl, fail) ==
    /\ CanCall
    /\ LET r == StoreSetTTL(data, ps, key, ttl, fail)
       IN  Commit(r, [Called("SetTTL", key, fail) EXCEPT !.err = r.err, !.arg = ttl],
                  g, {}, {})

Touch(key, fail) ==
    /\ CanCall
    /\ LET r == StoreTouch(data, ps, key, now, fail)
       IN  Commit(r, [Called("Touch", key, fail) EXCEPT !.err = r.err], g, {}, {})

\* the history after Counter(key, delta) returned r
Counted(gg, d, r, key, delta) ==
    IF r.data = d THEN gg
    ELSE LET w == Wrote(gg, key, r.data[key].Data, FALSE)
         IN  IF r.err # ErrNil THEN w
             ELSE IF key \notin DOMAIN d
             THEN IF Quiet THEN [w EXCEPT !.ctr = Put(@, key, delta)] ELSE w
             ELSE IF key \in DOMAIN gg.ctr
             THEN [w EXCEPT !.ctr = Put(@, key, gg.ctr[key] + delta)]
             ELSE w

Counter(key, delta, fail) ==
    /\ CanCall
    /\ LET r == StoreCounter(data, ps, key, delta, now, fail)
       IN  Commit(r,
                  [Called("Counter", key, fail) EXCEPT !.err = r.err, !.num = r.ret,
                                                 !.arg = delta],
                  Counted(g, data, r, key, delta),
                  {},
                  IF r.data = data THEN {} ELSE {key})

SetCounterLimits(key, lim, fail) ==
    /\ CanCall
    /\ LET r == StoreSetCounterLimits(data, ps, key, lim[1], lim[2], fail)
       IN  Commit(r,
                  [Called("SetCounterLimits", key, fail) EXCEPT
                        !.err = r.err, !.lo = lim[1], !.hi = lim[2]],
                  g, {}, {})

InMemory(key) ==
    /\ CanCall
    /\ Commit(Result(data, ps, ErrNil, 0),
              [Called("InMemory", key, {}) EXCEPT !.flag = StoreInMemory(data, key)],
              g, {}, {})

TTL(key) ==
    /\ CanCall
    /\ Commit(Result(data, ps, ErrNil, 0),
              [Called("TTL", key, {}) EXCEPT !.num = StoreTTL(data, key, now)],
              g, {}, {})

Keys(order) ==
    /\ CanCall
    /\ Commit(Result(data, ps, ErrNil, 0),
              [Called("Keys", <<>>, {}) EXCEPT !.keys = StoreKeys(data, order)],
              g, {}, {})

---------------------------------------------------------------------------
(* Get: the lookup under the read lock, then the reads of the entry with   *)
(* no lock held, then the cold path through the first backing store        *)

\* caller t's Get returns (val, err)
GetReturn(t, d, val, err) ==
    /\ pc' = [pc EXCEPT ![t] = "idle"]
    /\ last' = [Returned("Get", loc[t].key) EXCEPT
                    !.err = err, !.val = val, !.exp = loc[t].exp,
                    !.del = loc[t].del, !.cold = loc[t].cold,
                    !.inmem = StoreInMemory(d, loc[t].key)]

GetBegin(t, key) ==
    /\ CanCall
    /\ pc[t] = "idle"
    /\ nops' = nops + 1
    /\ IF ~KeyValid(key)
       THEN /\ last' = [Returned("Get", key) EXCEPT !.err = ErrKeyInvalid]
            /\ UNCHANGED <<pc, loc>>
       ELSE IF key \notin DOMAIN data
       THEN /\ last' = [Returned("Get", key) EXCEPT
                            !.err = ErrNotFoundErr, !.del = key \in g.deleted]
            /\ UNCHANGED <<pc, loc>>
       ELSE /\ pc' = [pc EXCEPT ![t] = "getData"]
            /\ loc' = [loc EXCEPT ![t] =
                        [IdleLoc EXCEPT
                            !.key = key,
                            !.ref = LiveRef,
                            !.exp = IF key \in DOMAIN g.setv
                                    THEN Expect(g.setv[key]) ELSE NoExp,
                            !.del = key \in g.deleted,
                            !.cold = ~data[key].dataLoaded]]
            /\ UNCHANGED last
    /\ UNCHANGED <<cfg, now, data, ps, sweep, crashed, g>>

\* mv.expired(kv.nowFunc()) and mv.dataLoaded, read through the pointer
GetData(t) ==
    /\ ~crashed
    /\ pc[t] = "getData"
    /\ LET mv == Deref(loc[t].ref, data, loc[t].key)
       IN  IF expired(mv, now)
           THEN /\ GetReturn(t, data, NilData, ErrNotFoundErr)
                /\ loc' = [loc EXCEPT ![t] = IdleLoc]
           ELSE IF mv.dataLoaded
           THEN /\ pc' = [pc EXCEPT ![t] = "getLoaded"]
                /\ UNCHANGED <<loc, last>>
           ELSE IF Len(ps) = 0
           THEN /\ GetReturn(t, data, NilData, ErrNil)
                /\ loc' = [loc EXCEPT ![t] = IdleLoc]
           ELSE /\ pc' = [pc EXCEPT ![t] = "getRead"]
                /\ loc' = [loc EXCEPT ![t].ref = Frozen(ZeroItem)]
                /\ UNCHANGED last
    /\ UNCHANGED <<cfg, now, data, ps, sweep, crashed, nops, g>>

\* return mv.Data, nil
GetLoaded(t) ==
    /\ ~crashed
    /\ pc[t] = "getLoaded"
    /\ GetReturn(t, data, Deref(loc[t].ref, data, loc[t].key).Data, ErrNil)
    /\ loc' = [loc EXCEPT ![t] = IdleLoc]
    /\ UNCHANGED <<cfg, now, data, ps, sweep, crashed, nops, g>>

\* kv.persistence[0].Read(key, true): a direct call answers at once, the
\* buffer queues the command and the caller waits for the response
GetRead(t) ==
    /\ ~crashed
    /\ pc[t] = "getRead"
    /\ IF ps[1].buffered
       THEN /\ Len(ps[1].queue) < BufferSize
            /\ ps' = [ps EXCEPT ![1] = bufRead(@, loc[t].key, TRUE, t)]
            /\ pc' = [pc EXCEPT ![t] = "getWait"]
            /\ UNCHANGED loc
       ELSE /\ loc' = [loc EXCEPT ![t].res = fsRead(ps[1], loc[t].key, TRUE)]
            /\ pc' = [pc EXCEPT ![t] = "getMerge"]
            /\ UNCHANGED ps
    /\ UNCHANGED <<cfg, now, data, sweep, crashed, nops, last, g>>

\* the rest of readFromFirstStore: the error, or kv.data[key] = mv under
\* the write lock
GetMerge(t) ==
    /\ ~crashed
    /\ pc[t] = "getMerge"
    /\ LET key == loc[t].key
           res == loc[t].res
           gone == {key} \cap DOMAIN data
       IN  IF res.err # ErrNil
           THEN /\ GetReturn(t, data, NilData, res.err)
                /\ loc' = [loc EXCEPT ![t] = IdleLoc]
                /\ UNCHANGED <<data, ps, g>>
           ELSE /\ data' = Put(data, key, res.mv)
                /\ ps' = [i \in DOMAIN ps |->
                            IF key \in DOMAIN data
                            THEN FreezeQueue(ps[i], key, data[key])
                            ELSE ps[i]]
                /\ GetReturn(t, data', res.mv.Data, ErrNil)
                /\ LET s == Settle(g, [FreezeLocs(loc, pc, gone, data)
                                            EXCEPT ![t] = IdleLoc],
                                   data', now, {})
                   IN  g' = s.g /\ loc' = s.loc
    /\ UNCHANGED <<cfg, now, sweep, crashed, nops>>

---------------------------------------------------------------------------
(* The buffer's consumer, the clock, the eviction task, and a restart *)

\* commandBuffer takes the next command off b.cb and runs processCommand
Consume(i) ==
    /\ ~crashed
    /\ ps[i].buffered
    /\ ps[i].running
    /\ ps[i].queue # <<>>
    /\ LET command == Head(ps[i].queue)
           p == [ps[i] EXCEPT !.queue = Tail(@)]
       IN  IF command.cmdType \in {writeCommand, deleteCommand}
           THEN /\ ps' = [ps EXCEPT ![i] = processCommand(p, data, command)]
                /\ UNCHANGED <<pc, loc>>
           ELSE /\ ps' = [ps EXCEPT ![i] = p]
                /\ loc' = [loc EXCEPT ![command.tid].res =
                                bufReadReturn(processRead(p, command))]
                /\ pc' = [pc EXCEPT ![command.tid] = "getMerge"]
    /\ UNCHANGED <<cfg, now, data, sweep, crashed, nops, last, g>>

Tick ==
    /\ ~crashed
    /\ now < MaxTime
    /\ now' = now + 1
    /\ LET s == Settle(g, loc, data, now + 1, {})
       IN  g' = s.g /\ loc' = s.loc
    /\ UNCHANGED <<cfg, data, ps, pc, sweep, crashed, nops, last>>

\* eviction, under the read lock: which keys to delete, which to unload.
\* The select takes the timer also when kv.ctx is done, if both are ready.
\* A sweep that finds no key changes nothing and is not a step.
Scan ==
    /\ ~crashed
    /\ cfg.evict
    /\ sweep.pc = "idle"
    /\ LET deletionKeys == {k \in DOMAIN data : expired(data[k], now)}
           unloadKeys ==
               {k \in DOMAIN data :
                    /\ ~expired(data[k], now)
                    /\ unload(data[k], now, cfg.unloadAfter)
                    /\ Len(ps) > 0}
       IN  /\ deletionKeys \cup unloadKeys # {}
           /\ sweep' = [sweep EXCEPT !.pc = "mutate",
                                      !.deletionKeys = deletionKeys,
                                      !.unloadKeys = unloadKeys]
    /\ UNCHANGED <<cfg, now, data, ps, pc, loc, crashed, nops, last, g>>

\* a faulty sweep that drops the keys from the map and tells no backing
\* store: C14 must tell it from DeleteAll
DeleteFromMemory(d, pss, keys) == Result(Drop(d, keys), pss, ErrNil, 0)

\* kv.delete(k) for every k of keys; a key that is gone is only logged
RECURSIVE DeleteAll(_, _, _)
DeleteAll(d, pss, keys) ==
    IF keys = {} THEN Result(d, pss, ErrNil, 0)
    ELSE LET k == CHOOSE x \in keys : TRUE
             r == delete(d, pss, k, {})
         IN  DeleteAll(r.data, r.ps, keys \ {k})

Unloaded(mv) == [mv EXCEPT !.dataLoaded = FALSE, !.Data = NilData]

\* eviction, under the write lock; kv.data[k] of a key that is gone is a
\* nil pointer, and writing through it panics
Evict ==
    /\ ~crashed
    /\ sweep.pc = "mutate"
    /\ LET r == DeleteAll(data, ps, sweep.deletionKeys)
           gone == sweep.deletionKeys \cap DOMAIN data
           s == Settle(Removed(g, gone, FALSE),
                       FreezeLocs(loc, pc, gone, data), r.data, now, gone)
       IN  /\ QueuesFit(r.ps)
           /\ ps' = r.ps
           /\ g' = s.g
           /\ loc' = s.loc
           /\ IF sweep.unloadKeys \subseteq DOMAIN r.data
              THEN /\ data' = [k \in DOMAIN r.data |->
                                IF k \in sweep.unloadKeys
                                THEN Unloaded(r.data[k]) ELSE r.data[k]]
                   /\ UNCHANGED crashed
              ELSE /\ data' = r.data
                   /\ crashed' = TRUE
    /\ sweep' = [IdleSweep EXCEPT !.cancelled = sweep.cancelled]
    /\ UNCHANGED <<cfg, now, pc, nops, last>>

\* Close: kv.cancelFunc(), and return; last.flag: a sweep was between its
\* scan and its deletions at that moment
Close ==
    /\ CanCall
    /\ ~sweep.cancelled
    /\ sweep' = [sweep EXCEPT !.cancelled = TRUE]
    /\ last' = [Returned("Close", <<>>) EXCEPT !.flag = sweep.pc = "mutate"]
    /\ nops' = nops + 1
    /\ UNCHANGED <<cfg, now, data, ps, pc, loc, crashed, g>>

\* cacheController takes <-kv.ctx.Done() in its select and returns
Stop ==
    /\ ~crashed
    /\ cfg.evict
    /\ sweep.pc = "idle"
    /\ sweep.cancelled
    /\ sweep' = [sweep EXCEPT !.pc = "stopped"]
    /\ UNCHANGED <<cfg, now, data, ps, pc, loc, crashed, nops, last, g>>

\* the process stops with nothing in flight and a new Store is constructed
\* on the same backing stores
Reload(keysFail) ==
    /\ CanCall
    /\ Len(ps) > 0
    /\ \A t \in Callers : pc[t] = "idle"
    /\ sweep.pc = "idle"
    /\ \A i \in DOMAIN ps : ps[i].queue = <<>>
    /\ LET r == initialisePersistenceControllers(ps, now, keysFail)
       IN  /\ data' = r.data
           /\ last' = [Returned("Restart", <<>>) EXCEPT
                        !.err = r.err, !.failed = keysFail]
    /\ g' = [NoHistory EXCEPT !.written = g.written, !.everDel = g.everDel]
    /\ nops' = nops + 1
    /\ UNCHANGED <<cfg, now, ps, pc, loc, sweep, crashed>>

\* a restart over backing stores that can be listed
Restart == Reload(FALSE)

---------------------------------------------------------------------------
(* Spec: a Store over a buffered filesystem persister, with unloading and  *)
(* eviction switched on, used by concurrent callers on one key             *)

StoreCfg ==
    [options |-> <<<<NewPersister(1, TRUE)>>>>, unloadAfter |-> 1,
     evict |-> TRUE, canFail |-> FALSE,
     keysOf |-> [t \in Callers |-> {K1}],
     vals |-> {<<"a">>},
     deltas |-> {1},
     ttls |-> {1},
     limits |-> {<<0, 2>>}]

Init == InitWith(StoreCfg)

Next ==
    \/ \E key \in AllKeys, value \in cfg.vals, fail \in FailSets :
            Set(key, value, fail)
    \/ \E key \in AllKeys, fail \in FailSets : Delete(key, fail)
    \/ \E key \in AllKeys, ttl \in cfg.ttls, fail \in FailSets :
            SetTTL(key, ttl, fail)
    \/ \E key \in AllKeys, delta \in cfg.deltas, fail \in FailSets :
            Counter(key, delta, fail)
    \/ \E t \in Callers : \E key \in cfg.keysOf[t] : GetBegin(t, key)
    \/ \E t \in Callers : GetData(t)
    \/ \E t \in Callers : GetLoaded(t)
    \/ \E t \in Callers : GetRead(t)
    \/ \E t \in Callers : GetMerge(t)
    \/ \E i \in DOMAIN ps : Consume(i)
    \/ Tick
    \/ Scan
    \/ Evict
    \/ Restart

Spec == Init /\ [][Next]_vars

---------------------------------------------------------------------------
(* Claims about Set, Get, Delete, restart and unloading, checked on Spec *)

\* Get(key) on map d and persisters pss at time t when nothing else runs
\* and the buffers are empty
GetSeq(d, pss, key, t) ==
    IF ~KeyValid(key) THEN [val |-> NilData, err |-> ErrKeyInvalid]
    ELSE IF key \notin DOMAIN d THEN [val |-> NilData, err |-> ErrNotFoundErr]
    ELSE IF expired(d[key], t) THEN [val |-> NilData, err |-> ErrNotFoundErr]
    ELSE IF d[key].dataLoaded THEN [val |-> d[key].Data, err |-> ErrNil]
    ELSE IF Len(pss) = 0 THEN [val |-> NilData, err |-> ErrNil]
    ELSE LET r == fsRead(pss[1], key, TRUE)
         IN  IF r.err # ErrNil THEN [val |-> NilData, err |-> r.err]
             ELSE [val |-> r.mv.Data, err |-> ErrNil]

\* C1: a Get(k) issued after Set(k, v) returned success returns exactly v
\* with no error, as long as k has not since expired, been deleted or been
\* overwritten
C1_GetReturnsSet ==
    (last.op = "Get" /\ last.exp.has)
        => (last.err = ErrNil /\ last.val = last.exp.v)

\* a Get that was issued after a successful Set of its key has returned
C1_GetAfterSet == last.op = "Get" /\ last.exp.has

\* C2: once Delete(k) has returned for a key that existed, Get(k) fails
\* with NotFound until k is created again; Delete(k) of a key that is not
\* in the map returns NotFound and changes nothing
C2_DeleteThenGet ==
    /\ (last.op = "Get" /\ last.del) => last.err = ErrNotFoundErr
    /\ (last.op = "Delete" /\ ~last.existed)
            => (last.err = ErrNotFoundErr /\ ~last.changed)

\* a Get issued after a Delete of its key has returned
C2_GetAfterDelete == last.op = "Get" /\ last.del

\* C3: once every write-through has been applied, a new Store constructed
\* on the same backing store tracks every key that was written and not
\* deleted, and Get(k) on it returns the last payload written for k (keys
\* whose TTL has run out aside)
C3_RestartRoundTrip ==
    last.op = "Restart" =>
        \A k \in DOMAIN g.written :
            /\ k \in DOMAIN data
            /\ ~expired(data[k], now) =>
                    GetSeq(data, ps, k, now) =
                        [val |-> g.written[k], err |-> ErrNil]

\* a Store restarted over a backing store that holds a written key
C3_Restarted == last.op = "Restart" /\ DOMAIN g.written # {}

\* C4: InMemory(k) is true right after Set(k, v); a Get(k) of a key that an
\* eviction sweep has unloaded and that is still tracked succeeds, returns
\* v read back from the first backing store, and makes InMemory(k) true
C4_UnloadThenGet ==
    /\ (last.op = "Set" /\ last.err = ErrNil) => last.inmem
    /\ (last.op = "Get" /\ last.cold /\ last.exp.has)
            => (last.err = ErrNil /\ last.val = last.exp.v /\ last.inmem)

\* a Get of an unloaded key whose Set had returned success has returned
C4_ColdGet == last.op = "Get" /\ last.cold /\ last.exp.has

\* C8: for a counter k created while no Get was in flight and used since
\* by Counter and Get calls and eviction sweeps only: when all calls have
\* completed, the value stored for k is its initial value plus the deltas
\* of the Counter calls that returned success
C8_NoLostIncrement ==
    Quiet =>
        \A k \in DOMAIN g.ctr :
            (k \in DOMAIN data /\ data[k].dataLoaded)
                => ParseInt(data[k].Data) = [ok |-> TRUE, val |-> g.ctr[k]]

\* a counter that Counter calls have raised, with no call in flight
C8_Counted ==
    /\ Quiet
    /\ \E k \in DOMAIN g.ctr : k \in DOMAIN data /\ g.ctr[k] > 1

---------------------------------------------------------------------------
(* ApiSpec: every keyed operation, on a valid and on an invalid key, over  *)
(* a filesystem persister that is called directly and whose writes and     *)
(* deletes may fail; nothing is unloaded or evicted, and one caller at a   *)
(* time is inside Get                                                      *)

ApiCfg ==
    [options |-> <<<<NewPersister(1, FALSE)>>>>, unloadAfter |-> 0,
     evict |-> FALSE, canFail |-> TRUE,
     keysOf |-> [t \in Callers |-> IF t = 1 THEN {K1, BadKey} ELSE {}],
     vals |-> {<<"a">>},
     deltas |-> {-1, 2},
     ttls |-> {1},
     limits |-> {<<0, 2>>}]

ApiInit == InitWith(ApiCfg)

ApiNext ==
    \/ \E key \in AllKeys, value \in cfg.vals, fail \in FailSets :
            Set(key, value, fail)
    \/ \E key \in AllKeys, fail \in FailSets : Delete(key, fail)
    \/ \E key \in AllKeys, ttl \in cfg.ttls, fail \in FailSets :
            SetTTL(key, ttl, fail)
    \/ \E key \in AllKeys, fail \in FailSets : Touch(key, fail)
    \/ \E key \in AllKeys, delta \in cfg.deltas, fail \in FailSets :
            Counter(key, delta, fail)
    \/ \E key \in AllKeys, lim \in cfg.limits, fail \in FailSets :
            SetCounterLimits(key, lim, fail)
    \/ \E key \in AllKeys : InMemory(key)
    \/ \E key \in AllKeys : TTL(key)
    \/ \E t \in Callers : \E key \in cfg.keysOf[t] : GetBegin(t, key)
    \/ \E t \in Callers : GetData(t)
    \/ \E t \in Callers : GetLoaded(t)
    \/ Tick

ApiSpec == ApiInit /\ [][ApiNext]_vars

---------------------------------------------------------------------------
(* KeysSpec: callers on pairwise distinct keys, no backing store *)

KeysCfg ==
    [options |-> <<>>, unloadAfter |-> 0,
     evict |-> TRUE, canFail |-> FALSE,
     keysOf |-> [t \in Callers |-> {CallerKey(t)}],
     vals |-> {<<"a">>},
     deltas |-> {1},
     ttls |-> {1},
     limits |-> {<<0, 2>>}]

KeysInit == InitWith(KeysCfg)

KeysNext ==
    \/ \E key \in AllKeys, value \in cfg.vals, fail \in FailSets :
            Set(key, value, fail)
    \/ \E key \in AllKeys, fail \in FailSets : Delete(key, fail)
    \/ \E key \in AllKeys, ttl \in cfg.ttls, fail \in FailSets :
            SetTTL(key, ttl, fail)
    \/ \E order \in Perms(DOMAIN data) : Keys(order)
    \/ \E t \in Callers : \E key \in cfg.keysOf[t] : GetBegin(t, key)
    \/ \E t \in Callers : GetData(t)
    \/ \E t \in Callers : GetLoaded(t)
    \/ Tick
    \/ Scan
    \/ Evict

KeysSpec == KeysInit /\ [][KeysNext]_vars

---------------------------------------------------------------------------
(* Claims about counters and key validation, checked on ApiSpec *)

LimitErrors == {ErrCounterMax, ErrCounterMin}

\* the last call was Counter on an existing, loaded counter key
CounterOnCounter ==
    /\ last.op = "Counter"
    /\ KeyValid(last.key)
    /\ last.existed
    /\ last.pre.Counter.set
    /\ ParseInt(last.pre.Data).ok

\* C5: for an existing counter key with value x and bounds [min, max],
\* Counter(k, delta) returns a maximum/minimum-reached error exactly when
\* x + delta is outside [min, max]; with that error it returns 0, leaves the
\* entry as it was and writes nothing through
C5_CounterLimit ==
    CounterOnCounter =>
        LET x == ParseInt(last.pre.Data).val
            outside == x + last.arg < last.pre.Counter.Min
                       \/ x + last.arg > last.pre.Counter.Max
        IN  /\ (last.err \in LimitErrors) <=> outside
            /\ (last.err \in LimitErrors) => (last.num = 0 /\ ~last.changed)

\* a Counter call that would leave the bounds has returned
C5_OutOfBounds ==
    /\ CounterOnCounter
    /\ ParseInt(last.pre.Data).val + last.arg > last.pre.Counter.Max

\* the map before the two Counter calls of g.before and last
BeforeBoth ==
    IF g.before.existed THEN Put(data, last.key, g.before.pre)
    ELSE Drop(data, {last.key})

\* two Counter calls on one key returned success one after the other, each
\* value they passed through within the key's bounds
CounterTwice ==
    /\ last.op = "Counter"
    /\ last.err = ErrNil
    /\ g.before.has
    /\ g.before.key = last.key
    /\ last.existed
    /\ last.pre.Counter.set
    /\ ParseInt(last.pre.Data).ok
    /\ g.before.arg + last.arg >= MinInt64
    /\ g.before.arg + last.arg <= MaxInt64
    /\ LET y == ParseInt(last.pre.Data).val
       IN  /\ y >= last.pre.Counter.Min /\ y <= last.pre.Counter.Max
           /\ y + last.arg >= last.pre.Counter.Min
           /\ y + last.arg <= last.pre.Counter.Max
    /\ g.before.existed =>
            (g.before.pre.Counter.set /\ ParseInt(g.before.pre.Data).ok)

\* C6: Counter(k, d1) then Counter(k, d2), from an absent key or an existing
\* counter and with the values passed through within bounds, leave the
\* stored value and return the result of one Counter(k, d1 + d2); on an
\* absent key Counter(k, d) creates k with value d and full int64 bounds
C6_CounterAdditive ==
    /\ CounterTwice =>
            LET one == StoreCounter(BeforeBoth, ps, last.key,
                                    g.before.arg + last.arg, now, {})
            IN  /\ one.err = ErrNil
                /\ one.ret = last.num
                /\ one.data[last.key].Data = data[last.key].Data
    /\ (last.op = "Counter" /\ KeyValid(last.key) /\ ~last.existed) =>
            /\ last.key \in DOMAIN data
            /\ data[last.key].Data = FormatInt(last.arg)
            /\ data[last.key].Counter = FullCounter
            /\ last.err = ErrNil => last.num = last.arg

\* two Counter calls in a row on a counter that has limits
C6_TwoCounters == CounterTwice /\ g.before.existed /\ last.pre.Counter.Max = 2

\* C7: SetCounterLimits(k, min, max) on a key that does not exist succeeds
\* and creates k as a counter with payload min and bounds [min, max]
C7_LimitsCreate ==
    (last.op = "SetCounterLimits" /\ KeyValid(last.key) /\ ~last.existed
     /\ ~last.failed) =>
        /\ last.err = ErrNil
        /\ last.key \in DOMAIN data
        /\ data[last.key].Data = FormatInt(last.lo)
        /\ data[last.key].Counter =
                [set |-> TRUE, Min |-> last.lo, Max |-> last.hi]

\* SetCounterLimits has returned for a key that did not exist
C7_LimitsOnAbsent ==
    last.op = "SetCounterLimits" /\ KeyValid(last.key) /\ ~last.existed

KeyedOps ==
    {"Set", "Get", "Delete", "InMemory", "SetTTL", "TTL", "Touch", "Counter",
     "SetCounterLimits"}

\* the keyed operations that return an error
ErrorOps == KeyedOps \ {"InMemory", "TTL"}

\* C9: every keyed operation given an invalid key reports InvalidKey (where
\* it returns an error) and leaves the map and the backing stores unchanged
C9_InvalidKey ==
    (last.op \in KeyedOps /\ ~KeyValid(last.key)) =>
        /\ last.op \in ErrorOps => last.err = ErrKeyInvalid
        /\ ~last.changed

\* a keyed operation has returned for an invalid key
C9_InvalidCall == last.op \in KeyedOps /\ ~KeyValid(last.key)

---------------------------------------------------------------------------
(* Claims about Keys, checked on KeysSpec *)

Range(f) == {f[i] : i \in DOMAIN f}

\* C10: with callers running Set, Get and Delete on pairwise distinct keys,
\* Keys() returns each tracked key exactly once; if no key was deleted or
\* has expired, these are exactly the keys that were Set
C10_KeysExact ==
    last.op = "Keys" =>
        /\ \A i, j \in DOMAIN last.keys : i # j => last.keys[i] # last.keys[j]
        /\ Range(last.keys) = last.dom
        /\ (~g.everDel /\ \A k \in DOMAIN data : ~expired(data[k], now))
                => Range(last.keys) = DOMAIN g.written

\* Keys() has returned several keys while a caller was inside Get
C10_KeysListed == last.op = "Keys" /\ Len(last.keys) >= 2 /\ ~Quiet

---------------------------------------------------------------------------
(* Claims about TTL, Touch and expiry, checked on ApiSpec *)

\* caller operation op, one that runs under the lock from call to return,
\* has just run
Ran(op) == last'.op = op /\ nops' = nops + 1 /\ pc' = pc

\* C11: TTL(k) returns TTLKeyNotExist when k is not in the Store,
\* TTLNoExpirySet when k exists with no expiry set, and otherwise the
\* seconds left until timestamp + ttlSeconds, never below 0; TTL changes
\* nothing
C11_TTLValue ==
    [][(Ran("TTL") /\ KeyValid(last'.key)) =>
        LET k == last'.key
            left == IF k \in DOMAIN data
                    THEN data[k].Ts + data[k].TTL - now ELSE 0
        IN  /\ k \notin DOMAIN data => last'.num = TTLKeyNotExist
            /\ (k \in DOMAIN data /\ data[k].TTL = TTLNoExpirySet)
                    => last'.num = TTLNoExpirySet
            /\ (k \in DOMAIN data /\ data[k].TTL > 0)
                    => last'.num = IF left < 0 THEN 0 ELSE left
            /\ data' = data
            /\ ps' = ps]_vars

\* TTL has returned for a key that exists and has no expiry set
C11_NoExpiryAsked ==
    last.op = "TTL" /\ last.existed /\ last.pre.TTL = TTLNoExpirySet

\* C12: Touch(k) on a present, unexpired key sets its timestamp to now, so
\* that TTL(k) at the same instant is the ttlSeconds given to SetTTL, and
\* writes the entry to every backing store whose write does not fail;
\* Touch(k) on an absent or expired key returns NotFound and changes nothing
C12_TouchRefreshes ==
    [][(Ran("Touch") /\ KeyValid(last'.key)) =>
        LET k == last'.key
        IN  IF k \in DOMAIN data /\ ~expired(data[k], now)
            THEN /\ data' = [data EXCEPT ![k].Ts = now]
                 /\ data[k].TTL > 0 => StoreTTL(data', k, now) = data[k].TTL
                 /\ \A i \in DOMAIN ps :
                        (~ps[i].buffered /\ i \notin last'.fails) =>
                            /\ k \in DOMAIN ps'[i].meta
                            /\ ps'[i].meta[k] = Meta(data'[k])
                 /\ last'.err = ErrNil <=> last'.fails = {}
            ELSE /\ last'.err = ErrNotFoundErr
                 /\ data' = data
                 /\ ps' = ps]_vars

\* Touch has refreshed a key whose TTL was set and whose timestamp was old
C12_Touched ==
    /\ last.op = "Touch"
    /\ last.err = ErrNil
    /\ last.pre.TTL > 0
    /\ last.key \in DOMAIN data
    /\ data[last.key].Ts > last.pre.Ts

\* C13: once an entry's TTL has elapsed and before a sweep has removed it,
\* Get(k), Touch(k) and Delete(k) fail with NotFound
C13_ExpiredNotFound ==
    [][/\ \A op \in {"Touch", "Delete"} :
            (Ran(op) /\ last'.key \in DOMAIN data
             /\ expired(data[last'.key], now))
                => last'.err = ErrNotFoundErr
       /\ \A t \in Callers :
            (pc[t] = "getData" /\ pc'[t] # "getData" /\ loc[t].ref.live
             /\ expired(data[loc[t].key], now))
                => (last'.op = "Get" /\ last'.err = ErrNotFoundErr)]_vars

\* Touch has returned NotFound for a key that was there, its TTL elapsed
C13_TouchedExpired ==
    last.op = "Touch" /\ last.existed /\ last.err = ErrNotFoundErr

---------------------------------------------------------------------------
(* FanSpec: a Store over two backing stores passed directly in one         *)
(* WithPersistenceOption, each of whose calls may fail                     *)

FanCfg ==
    [options |-> <<<<NewPersister(1, FALSE), NewPersister(2, FALSE)>>>>,
     unloadAfter |-> 0, evict |-> FALSE, canFail |-> TRUE,
     keysOf |-> [t \in Callers |-> IF t = 1 THEN {K1} ELSE {}],
     vals |-> {<<"a">>},
     deltas |-> {1},
     ttls |-> {1},
     limits |-> {<<0, 2>>}]

FanInit == InitWith(FanCfg)

FanNext ==
    \/ \E key \in AllKeys, value \in cfg.vals, fail \in FailSets :
            Set(key, value, fail)
    \/ \E key \in AllKeys, fail \in FailSets : Delete(key, fail)
    \/ \E key \in AllKeys, ttl \in cfg.ttls, fail \in FailSets :
            SetTTL(key, ttl, fail)
    \/ \E key \in AllKeys, fail \in FailSets : Touch(key, fail)
    \/ \E key \in AllKeys, delta \in cfg.deltas, fail \in FailSets :
            Counter(key, delta, fail)
    \/ \E key \in AllKeys, lim \in cfg.limits, fail \in FailSets :
            SetCounterLimits(key, lim, fail)
    \/ Tick

FanSpec == FanInit /\ [][FanNext]_vars

\* the first persister, in the order of kv.persistence, whose call failed
FirstFailed(fails) == CHOOSE i \in fails : \A j \in fails : i <= j

\* C16: Delete(k) on an existing key removes it from memory and calls
\* Delete on every backing store in order, also after one has failed; it
\* returns the error of the first backing store that failed, and what was
\* deleted stays deleted
C16_DeleteFirstError ==
    [][(Ran("Delete") /\ last'.key \in DOMAIN data) =>
        LET k == last'.key
            fails == last'.fails
        IN  /\ data' = Drop(data, {k})
            /\ \A i \in DOMAIN ps :
                    IF i \in fails THEN ps'[i] = ps[i]
                    ELSE ps'[i] = fsDelete(ps[i], k)
            /\ last'.err = IF fails = {} THEN ErrNil
                           ELSE ErrDelete[ps[FirstFailed(fails)].id]]_vars

\* Delete has returned for a key that was in both backing stores while the
\* Delete of both stores failed
C16_BothFailed ==
    /\ last.op = "Delete"
    /\ last.existed
    /\ last.fails = {1, 2}
    /\ \A i \in DOMAIN ps : last.key \in ps[i].dirs

\* what the call recorded in l gives when no backing store fails
Unfailing(l) ==
    CASE l.op = "Set" -> StoreSet(data, ps, l.key, l.argv, now, {})
      [] l.op = "Touch" -> StoreTouch(data, ps, l.key, now, {})
      [] l.op = "SetTTL" -> StoreSetTTL(data, ps, l.key, l.arg, {})
      [] l.op = "SetCounterLimits" ->
            StoreSetCounterLimits(data, ps, l.key, l.lo, l.hi, {})
      [] l.op = "Counter" -> StoreCounter(data, ps, l.key, l.arg, now, {})

WritingOps == {"Set", "Touch", "SetTTL", "SetCounterLimits", "Counter"}

\* C17: when the write-through of Set, Touch, SetTTL, SetCounterLimits or
\* Counter fails, the call returns an error, the change made in memory
\* stays, and the write still reaches every backing store that did not fail
C17_FailedWriteThrough ==
    [][\A op \in WritingOps :
        (Ran(op) /\ last'.fails # {} /\ Unfailing(last').err = ErrNil) =>
            /\ last'.err # ErrNil
            /\ data' = Unfailing(last').data
            /\ \A i \in DOMAIN ps :
                    IF i \in last'.fails THEN ps'[i] = ps[i]
                    ELSE ps'[i] = Unfailing(last').ps[i]]_vars

\* a write-through has failed on the first backing store only, for a call
\* that changed the entry in memory
C17_FirstWriteFailed ==
    /\ last.op \in WritingOps
    /\ last.fails = {1}
    /\ last.err # ErrNil
    /\ last.changed
    /\ last.key \in DOMAIN ps[2].meta
    /\ last.key \notin DOMAIN ps[1].meta

---------------------------------------------------------------------------
(* OptionSpec: a Store given two buffered backing stores, either both in   *)
(* one WithPersistenceOption or, as TestMultiPersistence does, one in each *)
(* of two WithPersistenceOption options                                    *)

OptionCfg(options) ==
    [options |-> options,
     unloadAfter |-> 0, evict |-> FALSE, canFail |-> FALSE,
     keysOf |-> [t \in Callers |-> IF t = 1 THEN {K1} ELSE {}],
     vals |-> {<<"a">>},
     deltas |-> {1},
     ttls |-> {1},
     limits |-> {<<0, 2>>}]

OneOption == <<<<NewPersister(1, TRUE), NewPersister(2, TRUE)>>>>

TwoOptions == <<<<NewPersister(1, TRUE)>>, <<NewPersister(2, TRUE)>>>>

OptionInit == \E options \in {OneOption, TwoOptions} : InitWith(OptionCfg(options))

OptionNext ==
    \/ \E key \in AllKeys, value \in cfg.vals, fail \in FailSets :
            Set(key, value, fail)
    \/ \E key \in AllKeys, fail \in FailSets : Delete(key, fail)
    \/ \E t \in Callers : \E key \in cfg.keysOf[t] : GetBegin(t, key)
    \/ \E t \in Callers : GetData(t)
    \/ \E t \in Callers : GetLoaded(t)
    \/ \E t \in Callers : GetRead(t)
    \/ \E t \in Callers : GetMerge(t)
    \/ \E i \in DOMAIN ps : Consume(i)
    \/ Restart

OptionSpec == OptionInit /\ [][OptionNext]_vars

\* the backing stores handed to NewStore, in any of its options
Supplied == UNION {Range(cfg.options[o]) : o \in DOMAIN cfg.options}

\* backing store p as it is now: one the Store does not hold is never
\* called and stays as it was supplied
Stored(p) ==
    IF \E i \in DOMAIN ps : ps[i].id = p.id
    THEN ps[CHOOSE i \in DOMAIN ps : ps[i].id = p.id]
    ELSE p

\* C18: every backing store supplied at construction receives every
\* write-through: with the two stores of TestMultiPersistence, once the
\* queued writes are processed a key that was Set is in the first and in
\* the second store
C18_EveryStoreWritten ==
    (/\ last.op = "Set"
     /\ last.err = ErrNil
     /\ last.key \in DOMAIN data
     /\ \A i \in DOMAIN ps : ps[i].queue = <<>>) =>
        \A p \in Supplied :
            /\ last.key \in DOMAIN Stored(p).dat
            /\ Stored(p).dat[last.key] = last.argv

\* with one store in each of two options, a Set has returned and its queued
\* write has been processed into the second store
C18_SetProcessed ==
    /\ Len(cfg.options) = 2
    /\ last.op = "Set"
    /\ last.err = ErrNil
    /\ \A i \in DOMAIN ps : ps[i].queue = <<>>
    /\ last.key \in DOMAIN Stored(NewPersister(2, TRUE)).dat

---------------------------------------------------------------------------
(* StartSpec: a Store built, and built again, over one buffered backing    *)
(* store whose folder holds a key directory with no metadata file, as in   *)
(* TestLoadFailure, and whose key listing may fail                         *)

\* the folder of TestLoadFailure: MkdirAll(testFolder/key1) and no files
FailFolder == [NewPersister(1, TRUE) EXCEPT !.dirs = {K1}]

StartCfg ==
    [options |-> <<<<FailFolder>>>>,
     unloadAfter |-> 0, evict |-> FALSE, canFail |-> FALSE,
     keysOf |-> [t \in Callers |-> IF t = 1 THEN {K1} ELSE {}],
     vals |-> {<<"a">>},
     deltas |-> {1},
     ttls |-> {1},
     limits |-> {<<0, 2>>}]

StartInit == \E keysFail \in BOOLEAN : InitAs(StartCfg, keysFail)

StartNext ==
    \/ \E key \in AllKeys, value \in cfg.vals, fail \in FailSets :
            Set(key, value, fail)
    \/ \E key \in AllKeys, fail \in FailSets : Delete(key, fail)
    \/ \E t \in Callers : \E key \in cfg.keysOf[t] : GetBegin(t, key)
    \/ \E t \in Callers : GetData(t)
    \/ \E t \in Callers : GetLoaded(t)
    \/ \E t \in Callers : GetRead(t)
    \/ \E t \in Callers : GetMerge(t)
    \/ \E i \in DOMAIN ps : Consume(i)
    \/ Tick
    \/ \E keysFail \in BOOLEAN : Reload(keysFail)

StartSpec == StartInit /\ [][StartNext]_vars

\* what construction at time t over the persisters pss must give: the map d
\* and the returned call l
Constructed(d, l, pss, t) ==
    /\ l.err = ErrNil
    /\ l.failed => d = EmptyMap
    /\ ~l.failed =>
            /\ DOMAIN d = pss[1].dirs
            /\ \A k \in DOMAIN d :
                    k \notin DOMAIN pss[1].meta =>
                        /\ d[k].Ts = t
                        /\ d[k].Data = NilData
    /\ \A k \in DOMAIN d : ~d[k].dataLoaded

\* key k has been neither written nor deleted since the Store was built: if
\* it is in the folder of TestLoadFailure, its metadata could not be read
Untouched(k) == k \notin DOMAIN g.written /\ k \notin g.deleted

---------------------------------------------------------------------------
(* SweepSpec: a Store with the eviction task running and no unloading, as  *)
(* in TestThreadedEviction, over a buffered and a direct backing store,    *)
(* with the scheduling the runtime gives: the timer of cacheController     *)
(* keeps firing, a sweep that has scanned goes on to mutate, the buffer's  *)
(* consumer keeps taking commands, and a cancelled task gets to return     *)

SweepCfg ==
    [options |-> <<<<NewPersister(1, TRUE), NewPersister(2, FALSE)>>>>,
     unloadAfter |-> 0, evict |-> TRUE, canFail |-> FALSE,
     keysOf |-> [t \in Callers |-> IF t = 1 THEN {K1} ELSE {}],
     vals |-> {<<"a">>},
     deltas |-> {1},
     ttls |-> {0, 1},
     limits |-> {<<0, 2>>}]

SweepInit == InitWith(SweepCfg)

SweepNext ==
    \/ \E key \in AllKeys, value \in cfg.vals, fail \in FailSets :
            Set(key, value, fail)
    \/ \E key \in AllKeys, ttl \in cfg.ttls, fail \in FailSets :
            SetTTL(key, ttl, fail)
    \/ \E key \in AllKeys, fail \in FailSets : Touch(key, fail)
    \/ \E i \in DOMAIN ps : Consume(i)
    \/ Tick
    \/ Scan
    \/ Evict
    \/ Close
    \/ Stop

SweepSpec ==
    /\ SweepInit
    /\ [][SweepNext]_vars
    /\ WF_vars(Scan)
    /\ WF_vars(Evict)
    /\ WF_vars(\E i \in DOMAIN ps : Consume(i))
    /\ WF_vars(Stop)

\* the eviction task can no longer be counted on: Close was called, or the
\* process has panicked
Halted == sweep.cancelled \/ crashed

Expired(k) == k \in DOMAIN data /\ expired(data[k], now)

\* C14: with eviction on and the Store not closed, an expired entry that is
\* not written again is eventually removed by a sweep: it leaves the map
\* that Keys() lists, and the sweep that removes it issues a Delete to
\* every configured backing store
C14_ExpiredEvicted ==
    /\ Expired(K1) ~> (~Expired(K1) \/ Halted)
    /\ [][(sweep.pc = "mutate" /\ sweep'.pc = "idle") =>
            \A k \in sweep.deletionKeys \cap DOMAIN data :
                /\ k \notin DOMAIN data'
                /\ \A i \in DOMAIN ps :
                    IF ps[i].buffered
                    THEN /\ Len(ps'[i].queue) > Len(ps[i].queue)
                         /\ \E n \in DOMAIN ps'[i].queue :
                                /\ n > Len(ps[i].queue)
                                /\ ps'[i].queue[n].cmdType = deleteCommand
                                /\ ps'[i].queue[n].key = k
                    ELSE k \notin ps'[i].dirs]_vars

\* a sweep has removed an expired key that was in the direct backing store
C14_Swept ==
    /\ g.everDel
    /\ K1 \notin DOMAIN data
    /\ K1 \notin ps[2].dirs
    /\ sweep.pc = "idle"
    /\ ~Halted

\* SetTTL(k, 0) has returned and k still has the ttl 0 it was given
ZeroTTL(k) ==
    /\ k \in DOMAIN data
    /\ data[k].TTL = 0
    /\ last.op = "SetTTL"
    /\ last.key = k
    /\ last.arg = 0

\* C15: after SetTTL(k, 0) the next eviction sweep removes k
C15_ZeroTTLEvicted ==
    ZeroTTL(K1) ~> (K1 \notin DOMAIN data \/ data[K1].TTL # 0 \/ Halted)

\* SetTTL(k, 0) has returned on an entry old enough for any positive ttl of
\* the model to have elapsed, and the eviction task is waiting for its timer
C15_ZeroTTLSet ==
    /\ ZeroTTL(K1)
    /\ now > data[K1].Ts + 1
    /\ sweep.pc = "idle"
    /\ ~Halted

\* C21: Store.Close closes every configured persistence layer: once it has
\* returned, Close has been called on each configured backing store, and
\* for a buffered one its consumer has stopped
C21_CloseClosesStores ==
    (last.op = "Close" /\ sweep.cancelled) =>
        \A i \in DOMAIN ps :
            /\ ps[i].closed
            /\ ps[i].buffered => ~ps[i].running

\* Close has returned on a Store that was given a buffered and a direct
\* backing store, with a write still in the queue of the buffer
C21_Closed ==
    /\ last.op = "Close"
    /\ sweep.cancelled
    /\ Len(ps) = 2
    /\ ps[1].queue # <<>>

\* C20: Close cancels the eviction task and waits for it to exit: once
\* Close has returned no sweep is running
C20_CloseStopsSweep == [](sweep.cancelled => sweep.pc # "mutate")

\* Close has returned after a sweep has scanned the map and before it has
\* deleted what it found
C20_ClosedInSweep ==
    /\ last.op = "Close"
    /\ last.flag
    /\ sweep.cancelled
    /\ sweep.pc = "mutate"

---------------------------------------------------------------------------
(* Claims about Get running beside Set, Delete and the eviction sweep,     *)
(* checked on Spec                                                         *)

\* caller t's Get has its answer from the first backing store and is about
\* to take the lock to put it into the map
Merging(t) == pc[t] = "getMerge" /\ loc[t].res.err = ErrNil

\* C27: when the backing-store read of Get's cold path completes, the entry
\* in the map is replaced by what was read only if the key is still in the
\* map and still unloaded; an entry written while the read was in flight
\* is kept
C27_MergeRechecks ==
    [][\A t \in Callers :
        (Merging(t) /\ pc'[t] = "idle") =>
            LET key == loc[t].key
            IN  IF key \in DOMAIN data /\ ~data[key].dataLoaded
                THEN data' = Put(data, key, loc[t].res.mv)
                ELSE data' = data]_vars

\* a cold read has completed for a key whose entry was written, and so
\* loaded, while the read was in flight
C27_WrittenDuringRead ==
    \E t \in Callers :
        /\ Merging(t)
        /\ loc[t].cold
        /\ loc[t].key \in DOMAIN data
        /\ data[loc[t].key].dataLoaded

\* C28: a Delete(k) that has returned is not undone by a Get(k) that was
\* waiting for its backing-store read: once both calls are over k is not in
\* the map, so Keys() does not list it and Get(k) gives NotFound
C28_DeleteNotUndone ==
    \A k \in g.deleted : Quiet => k \notin DOMAIN data

\* Delete(k) has returned while a Get(k) was in its cold path
C28_DeletedDuringRead ==
    \E t \in Callers :
        /\ pc[t] \in {"getRead", "getWait", "getMerge"}
        /\ loc[t].key \in g.deleted
        /\ loc[t].key \notin DOMAIN data

\* C29: whenever the eviction sweep unloads an entry, the first backing
\* store already holds the entry's current payload, also when that store
\* is behind a buffer whose queued Write of the key is still to be executed
C29_UnloadedIsStored ==
    [][(sweep.pc = "mutate" /\ sweep'.pc = "idle" /\ ~crashed') =>
        \A k \in sweep.unloadKeys :
            (k \in DOMAIN data' /\ k \in DOMAIN data /\ data[k].dataLoaded) =>
                /\ k \in DOMAIN ps[1].dat
                /\ ps[1].dat[k] = data[k].Data]_vars

\* the sweep is about to unload a key whose Write is still in the queue of
\* the buffer
C29_UnloadBeforeWrite ==
    /\ sweep.pc = "mutate"
    /\ \E k \in sweep.unloadKeys \cap DOMAIN data :
        /\ data[k].dataLoaded
        /\ \E n \in DOMAIN ps[1].queue :
                /\ ps[1].queue[n].cmdType = writeCommand
                /\ ps[1].queue[n].key = k
                /\ ps[1].queue[n].mv.live

\* C30: a Get(k) that found the entry loaded and returns success returns a
\* payload that was written, never the empty payload an unload in between
\* leaves behind
C30_GetSeesWholeEntry ==
    [][\A t \in Callers :
        (pc[t] = "getLoaded" /\ pc'[t] = "idle") =>
            (last'.err = ErrNil => last'.val # NilData)]_vars

\* a Get has read the loaded flag of an entry that the sweep has chosen to
\* unload and has not yet unloaded
C30_FlagReadBeforeUnload ==
    \E t \in Callers :
        /\ pc[t] = "getLoaded"
        /\ loc[t].ref.live
        /\ sweep.pc = "mutate"
        /\ loc[t].key \in sweep.unloadKeys

---------------------------------------------------------------------------
(* BufferSpec: the Buffer over a filesystem persister, called directly by  *)
(* concurrent callers, each on its own key, and closed by one of them.     *)
(* data holds the entries the callers hand to Write, by key.  A call is a  *)
(* step that starts it, the send on b.cb, and for Read the receive of the  *)
(* response; the consumer receives a command in one step and processes it  *)
(* in the next.  The runtime schedules every goroutine that can run.       *)

BufferCfg(canFail) ==
    [options |-> <<<<NewPersister(1, TRUE)>>>>,
     unloadAfter |-> 0, evict |-> FALSE, canFail |-> canFail,
     keysOf |-> [t \in Callers |-> {CallerKey(t)}],
     vals |-> {<<"a">>},
     deltas |-> {1},
     ttls |-> {1},
     limits |-> {<<0, 2>>}]

BufferInit == \E canFail \in BOOLEAN : InitWith(BufferCfg(canFail))

\* the pointers to the entry e of key, in the queue and in the consumer's
\* hands, no longer point to what the caller holds for key
FreezeBuffer(p, key, e) ==
    [FreezeQueue(p, key, e) EXCEPT !.inflight =
        [i \in DOMAIN p.inflight |->
            Command(p.inflight[i].cmdType, p.inflight[i].key,
                    FreezeRef(p.inflight[i].mv, p.inflight[i].key, key, e),
                    p.inflight[i].tid)]]

\* caller t calls Write(key, e) with a new entry e holding value
WriteCall(t, key, value) ==
    /\ CanCall
    /\ pc[t] = "idle"
    /\ data' = Put(data, key, NewValueItem(value, now))
    /\ ps' = IF key \in DOMAIN data
             THEN [ps EXCEPT ![1] = FreezeBuffer(@, key, data[key])]
             ELSE ps
    /\ pc' = [pc EXCEPT ![t] = "sendWrite"]
    /\ loc' = [loc EXCEPT ![t].key = key, ![t].res = NoRes]
    /\ nops' = nops + 1
    /\ UNCHANGED <<cfg, now, sweep, crashed, last, g>>

\* caller t calls Delete(key)
DeleteCall(t, key) ==
    /\ CanCall
    /\ pc[t] = "idle"
    /\ pc' = [pc EXCEPT ![t] = "sendDelete"]
    /\ loc' = [loc EXCEPT ![t].key = key, ![t].res = NoRes]
    /\ nops' = nops + 1
    /\ UNCHANGED <<cfg, now, data, ps, sweep, crashed, last, g>>

\* caller t calls Read(key, readValue)
ReadCall(t, key, readValue) ==
    /\ CanCall
    /\ pc[t] = "idle"
    /\ pc' = [pc EXCEPT ![t] = "sendRead"]
    /\ loc' = [loc EXCEPT ![t].key = key, ![t].res = NoRes,
                          ![t].readValue = readValue]
    /\ nops' = nops + 1
    /\ UNCHANGED <<cfg, now, data, ps, sweep, crashed, last, g>>

\* b.cb <- command: it panics on a closed channel, waits while the channel
\* is full, and otherwise Write and Delete return nil and Read goes on to
\* wait for its response
Send(t) ==
    /\ ~crashed
    /\ pc[t] \in {"sendWrite", "sendDelete", "sendRead"}
    /\ IF ~ps[1].open
       THEN /\ crashed' = TRUE
            /\ UNCHANGED <<ps, pc, loc, last>>
       ELSE /\ Len(ps[1].queue) < BufferSize
            /\ UNCHANGED crashed
            /\ IF pc[t] = "sendWrite"
               THEN /\ ps' = [ps EXCEPT ![1] = bufWrite(@, loc[t].key)]
                    /\ pc' = [pc EXCEPT ![t] = "idle"]
                    /\ loc' = [loc EXCEPT
                                ![t].exp = Expect(data[loc[t].key].Data),
                                ![t].del = FALSE]
                    /\ last' = Returned("Buffer.Write", loc[t].key)
               ELSE IF pc[t] = "sendDelete"
               THEN /\ ps' = [ps EXCEPT ![1] = bufDelete(@, loc[t].key)]
                    /\ pc' = [pc EXCEPT ![t] = "idle"]
                    /\ loc' = [loc EXCEPT ![t].exp = NoExp, ![t].del = TRUE]
                    /\ last' = Returned("Buffer.Delete", loc[t].key)
               ELSE /\ ps' = [ps EXCEPT ![1] =
                                bufRead(@, loc[t].key, loc[t].readValue, t)]
                    /\ pc' = [pc EXCEPT ![t] = "readWait"]
                    /\ UNCHANGED <<loc, last>>
    /\ UNCHANGED <<cfg, now, data, sweep, nops, g>>

\* a faulty channel that hands out the newest command first: C22 must tell
\* it from Receive
ReceiveNewest(queue) ==
    [command |-> queue[Len(queue)], rest |-> SubSeq(queue, 1, Len(queue) - 1)]

\* command := <-b.cb: what the consumer receives and what stays queued
Receive(queue) == [command |-> Head(queue), rest |-> Tail(queue)]

\* the consumer's select takes a command off b.cb, also when its context is
\* done if both are ready
Take(i) ==
    /\ ~crashed
    /\ ps[i].running
    /\ ps[i].inflight = <<>>
    /\ ps[i].queue # <<>>
    /\ ps' = [ps EXCEPT ![i].inflight = <<Receive(ps[i].queue).command>>,
                        ![i].queue = Receive(ps[i].queue).rest]
    /\ UNCHANGED <<cfg, now, data, pc, loc, sweep, crashed, nops, last, g>>

\* a faulty consumer that answers on the response channel of another
\* caller: C23 must tell it from Recipient
SomeoneElse(command) == CHOOSE t \in Callers : t # command.tid

\* whose response channel the command carries
Recipient(command) == command.tid

\* processCommand; failed: the call on the backing store returns an error,
\* which for a Write or a Delete is only logged
Process(i, failed) ==
    /\ ~crashed
    /\ ps[i].inflight # <<>>
    /\ LET command == ps[i].inflight[1]
           p == [ps[i] EXCEPT !.inflight = <<>>]
       IN  IF command.cmdType \in {writeCommand, deleteCommand}
           THEN /\ ps' = [ps EXCEPT ![i] =
                            IF failed THEN p
                            ELSE processCommand(p, data, command)]
                /\ UNCHANGED <<pc, loc>>
           ELSE /\ ps' = [ps EXCEPT ![i] = p]
                /\ loc' = [loc EXCEPT ![Recipient(command)].res =
                            bufReadReturn(
                                IF failed
                                THEN [mv |-> ZeroItem, err |-> ErrReadMeta]
                                ELSE processRead(p, command))]
                /\ pc' = [pc EXCEPT ![Recipient(command)] = "readReply"]
    /\ UNCHANGED <<cfg, now, data, sweep, crashed, nops, last, g>>

\* the consumer's select takes <-ctx.Done() and commandBuffer returns
ConsumerStop(i) ==
    /\ ~crashed
    /\ ps[i].running
    /\ ps[i].cancelled
    /\ ps[i].inflight = <<>>
    /\ ps' = [ps EXCEPT ![i].running = FALSE]
    /\ UNCHANGED <<cfg, now, data, pc, loc, sweep, crashed, nops, last, g>>

\* r := <-response, and the return of Read
ReadReturn(t) ==
    /\ ~crashed
    /\ pc[t] = "readReply"
    /\ pc' = [pc EXCEPT ![t] = "idle"]
    /\ last' = [Returned("Buffer.Read", loc[t].key) EXCEPT
                    !.val = loc[t].res.mv.Data,
                    !.err = loc[t].res.err,
                    !.exp = loc[t].exp,
                    !.del = loc[t].del]
    /\ UNCHANGED <<cfg, now, data, ps, loc, sweep, crashed, nops, g>>

\* Buffer.Close: b.persistence.Close() and b.cancel()
CloseCall(t) ==
    /\ CanCall
    /\ pc[t] = "idle"
    /\ ps' = [ps EXCEPT ![1].closed = TRUE, ![1].cancelled = TRUE]
    /\ pc' = [pc EXCEPT ![t] = "closeWait"]
    /\ nops' = nops + 1
    /\ UNCHANGED <<cfg, now, data, loc, sweep, crashed, last, g>>

\* a faulty Close that does not wait for the consumer: C25 must tell it
\* from CloseReturn
CloseWithoutWait(t) ==
    /\ ~crashed
    /\ pc[t] = "closeWait"
    /\ IF ~ps[1].open
       THEN /\ crashed' = TRUE
            /\ UNCHANGED <<ps, pc, last>>
       ELSE /\ ps' = [ps EXCEPT ![1].open = FALSE]
            /\ pc' = [pc EXCEPT ![t] = "idle"]
            /\ last' = Returned("Buffer.Close", <<>>)
            /\ UNCHANGED crashed
    /\ UNCHANGED <<cfg, now, data, loc, sweep, nops, g>>

\* Buffer.Close: b.wg.Wait() is over, close(b.cb), which panics on a
\* channel that is closed already, and return
CloseReturn(t) ==
    /\ ~crashed
    /\ pc[t] = "closeWait"
    /\ ~ps[1].running
    /\ IF ~ps[1].open
       THEN /\ crashed' = TRUE
            /\ UNCHANGED <<ps, pc, last>>
       ELSE /\ ps' = [ps EXCEPT ![1].open = FALSE]
            /\ pc' = [pc EXCEPT ![t] = "idle"]
            /\ last' = Returned("Buffer.Close", <<>>)
            /\ UNCHANGED crashed
    /\ UNCHANGED <<cfg, now, data, loc, sweep, nops, g>>

BufferFailures == IF cfg.canFail THEN BOOLEAN ELSE {FALSE}

BufferNext ==
    \/ \E t \in Callers : \E key \in cfg.keysOf[t] : WriteCall(t, key, key)
    \/ \E t \in Callers : \E key \in cfg.keysOf[t] : DeleteCall(t, key)
    \/ \E t \in Callers : \E key \in cfg.keysOf[t] : ReadCall(t, key, TRUE)
    \/ \E t \in Callers : Send(t)
    \/ \E i \in DOMAIN ps : Take(i)
    \/ \E i \in DOMAIN ps, failed \in BufferFailures : Process(i, failed)
    \/ \E i \in DOMAIN ps : ConsumerStop(i)
    \/ \E t \in Callers : ReadReturn(t)
    \/ \E t \in Callers : CloseCall(t)
    \/ \E t \in Callers : CloseReturn(t)

BufferSpec ==
    /\ BufferInit
    /\ [][BufferNext]_vars
    /\ \A t \in Callers : WF_vars(Send(t))
    /\ \A t \in Callers : WF_vars(ReadReturn(t))
    /\ \A t \in Callers : WF_vars(CloseReturn(t))
    /\ WF_vars(\E i \in DOMAIN ps : Take(i))
    /\ WF_vars(\E i \in DOMAIN ps, failed \in BufferFailures : Process(i, failed))
    /\ WF_vars(\E i \in DOMAIN ps : ConsumerStop(i))


\* what the backing store of persister p holds
Folder(p) == [dirs |-> p.dirs, meta |-> p.meta, dat |-> p.dat]

\* the consumer of persister i has nothing queued and nothing in hand
Drained(i) == ps[i].queue = <<>> /\ ps[i].inflight = <<>>

\* C22: the Buffer applies Write, Delete and Read commands to the backing
\* store one at a time and in the order in which they were enqueued; a
\* Read(k) enqueued after a Write(k, e) by the same caller observes that
\* write, and a Delete(k) enqueued after it removes it
C22_InOrder ==
    /\ [](\A i \in DOMAIN ps : Len(ps[i].inflight) <= 1)
    /\ [](~cfg.canFail =>
            /\ (last.op = "Buffer.Read" /\ last.exp.has) =>
                    (last.err = ErrNil /\ last.val = last.exp.v)
            /\ (last.op = "Buffer.Read" /\ last.del) => last.err # ErrNil
            /\ \A t \in Callers :
                    (pc[t] = "idle" /\ loc[t].del /\ Drained(1)) =>
                        loc[t].key \notin ps[1].dirs)
    /\ [][\A i \in DOMAIN ps :
            /\ (ps[i].inflight = <<>> /\ ps'[i].inflight # <<>>) =>
                    /\ ps[i].queue # <<>>
                    /\ ps'[i].inflight = <<Head(ps[i].queue)>>
                    /\ ps'[i].queue = Tail(ps[i].queue)
            /\ Len(ps'[i].queue) > Len(ps[i].queue) =>
                    SubSeq(ps'[i].queue, 1, Len(ps[i].queue)) = ps[i].queue
            /\ Folder(ps'[i]) # Folder(ps[i]) =>
                    /\ ps[i].inflight # <<>>
                    /\ ps'[i].inflight = <<>>
                    /\ Folder(ps'[i]) =
                        Folder(processCommand(ps[i], data, ps[i].inflight[1]))]_vars

\* a Read has returned what the same caller had written before it, with
\* another command enqueued in between
C22_ReadAfterWrite ==
    /\ ~cfg.canFail
    /\ last.op = "Buffer.Read"
    /\ last.exp.has
    /\ last.err = ErrNil
    /\ ps[1].queue # <<>>

\* C23: with concurrent callers, each Read returns the result the backing
\* store gave for that caller's own command, never the reply to another
\* caller's Read, and not before the consumer has executed the command
C23_OwnReply ==
    [][\A t \in Callers :
        /\ (pc[t] = "readWait" /\ pc'[t] # "readWait") => pc'[t] = "readReply"
        /\ (pc[t] # "readReply" /\ pc'[t] = "readReply") =>
                /\ pc[t] = "readWait"
                /\ \E i \in DOMAIN ps :
                    /\ ps[i].inflight # <<>>
                    /\ LET c == ps[i].inflight[1]
                       IN  /\ c.tid = t
                           /\ c.key = loc[t].key
                           /\ c.cmdType = IF loc[t].readValue
                                          THEN readValueCommand
                                          ELSE readMetadataCommand
                           /\ \/ loc'[t].res =
                                    bufReadReturn(fsRead(ps[i], c.key,
                                                         loc[t].readValue))
                              \/ /\ cfg.canFail
                                 /\ loc'[t].res.err = ErrBufferRead
        /\ (pc[t] = "readReply" /\ pc'[t] # "readReply") =>
                /\ pc'[t] = "idle"
                /\ last'.op = "Buffer.Read"
                /\ last'.key = loc[t].key
                /\ last'.err = loc[t].res.err
                /\ last'.val = loc[t].res.mv.Data]_vars

\* two callers are inside Read at once: one has its response, which holds
\* an entry, and the other is waiting for its own
C23_TwoReaders ==
    \E t, u \in Callers :
        /\ pc[t] = "readReply"
        /\ loc[t].res.err = ErrNil
        /\ pc[u] = "readWait"

\* C24: Write and Delete on the Buffer return success as soon as the
\* command is enqueued; a failure of the backing store for such a command
\* reaches no caller, and Store.Set through a Buffer never fails because of
\* the backing store
C24_AsyncNeverFails ==
    /\ [](ps[1].open =>
            \A fail \in SUBSET (DOMAIN ps) :
                StoreSet(data, ps, K1, <<"a">>, now, fail).err = ErrNil)
    /\ [][/\ \A t \in Callers :
                (pc[t] \in {"sendWrite", "sendDelete"} /\ pc'[t] = "idle") =>
                    /\ last'.op = IF pc[t] = "sendWrite" THEN "Buffer.Write"
                                  ELSE "Buffer.Delete"
                    /\ last'.key = loc[t].key
                    /\ last'.err = ErrNil
                    /\ Len(ps'[1].queue) = Len(ps[1].queue) + 1
          /\ \A i \in DOMAIN ps :
                (/\ ps[i].inflight # <<>>
                 /\ ps'[i].inflight = <<>>
                 /\ ps[i].inflight[1].cmdType \in {writeCommand, deleteCommand})
                    => (last' = last /\ pc' = pc /\ loc' = loc)]_vars

\* a Write that returned success was later refused by the backing store:
\* nothing is queued any more and the key is not in the folder
C24_WriteLost ==
    /\ cfg.canFail
    /\ Drained(1)
    /\ \E t \in Callers :
        /\ pc[t] = "idle"
        /\ loc[t].exp.has
        /\ loc[t].key \notin ps[1].dirs

\* C25: when Buffer.Close returns the consumer has terminated: a command it
\* had taken is completed, the commands still queued are never executed,
\* and the underlying backing store has been closed
C25_CloseStopsConsumer ==
    /\ [](~ps[1].open =>
            /\ ~ps[1].running
            /\ ps[1].inflight = <<>>
            /\ ps[1].closed)
    /\ [][~ps[1].open =>
            /\ Folder(ps'[1]) = Folder(ps[1])
            /\ Len(ps'[1].queue) = Len(ps[1].queue)
            /\ \A t \in Callers :
                    pc'[t] = "readReply" => pc[t] = "readReply"]_vars

\* Close has returned and has left commands in the queue
C25_Abandoned ==
    /\ last.op = "Buffer.Close"
    /\ ~ps[1].open
    /\ ps[1].queue # <<>>
    /\ ~crashed

\* C26: with a backing store that always answers, no call on the Buffer
\* blocks for ever or panics: every Read, Write and Delete returns, also one
\* that is in progress when Close is called or is made after it
C26_CallsReturn ==
    /\ [](~cfg.canFail => ~crashed)
    /\ \A t \in Callers :
            (~cfg.canFail /\ pc[t] \in {"sendWrite", "sendDelete", "sendRead",
                                        "readWait", "readReply"})
                ~> pc[t] = "idle"

\* a Read is waiting for its response when Close is called
C26_ReadDuringClose ==
    /\ ~cfg.canFail
    /\ ~crashed
    /\ \E t \in Callers : pc[t] = "readWait"
    /\ ps[1].cancelled
    /\ ps[1].running

---------------------------------------------------------------------------
(* Claims about the payload and the counter bounds, checked on ApiSpec *)

\* the operations C32 names
BoundKeeping == {"Set", "Touch", "SetTTL", "Counter"}

---------------------------------------------------------------------------
(* ValidSpec: KeyValid applied to every key of up to MaxKeyLen characters *)
(* over a letter, a digit, an allowed punctuation mark, the slash and the *)
(* space                                                                   *)

MaxKeyLen == 3

KeyChars == {"a", "1", "_", "/", " "}

KeysUpTo(n) == UNION {[1..m -> KeyChars] : m \in 0..n}

ValidInit == InitWith(KeysCfg)

\* a caller asks whether key is valid
CheckKey(key) ==
    /\ CanCall
    /\ Commit(Result(data, ps, ErrNil, 0),
              [Called("KeyValid", key, {}) EXCEPT !.flag = KeyValid(key)],
              g, {}, {})

ValidNext == \E key \in KeysUpTo(MaxKeyLen) : CheckKey(key)

ValidSpec == ValidInit /\ [][ValidNext]_vars

\* the punctuation a key may hold, as the specification lists it
ListedPunctuation == {":", "@", "#", "+", "-", "_", "/"}

\* C40: KeyValid(key) is true if and only if key is non-empty and each of
\* its characters is a letter, a digit or one of : @ # + - _ / ; the empty
\* key is invalid and a hierarchical key such as a/1 is valid
C40_KeyValidIff ==
    last.op = "KeyValid" =>
        (last.flag <=>
            /\ last.key # <<>>
            /\ \A i \in 1..Len(last.key) :
                \/ IsLetter(last.key[i])
                \/ IsDigit(last.key[i])
                \/ last.key[i] \in ListedPunctuation)

\* KeyValid was asked about a hierarchical key
C40_HierarchicalKey ==
    /\ last.op = "KeyValid"
    /\ last.key = <<"a", "/", "1">>
    /\ ~last.flag

---------------------------------------------------------------------------
(* Claims about Counter on entries the sweep has unloaded, checked on Spec *)

\* C33: Counter(k, delta) on an existing key fails with a parse error only
\* when the payload last written for k is not a base-10 integer; on a
\* counter key whose entry is unloaded it applies delta to the last written
\* value and succeeds when the result is within the bounds
C33_CounterOnUnloaded ==
    [][(/\ Ran("Counter")
        /\ KeyValid(last'.key)
        /\ last'.key \in DOMAIN data
        /\ last'.key \in DOMAIN g.written) =>
            LET k == last'.key
                p == ParseInt(g.written[k])
                sum == p.val + last'.arg
            IN  /\ last'.err = ErrCounterParse => ~p.ok
                /\ (/\ ~data[k].dataLoaded
                    /\ p.ok
                    /\ data[k].Counter.set
                    /\ sum >= data[k].Counter.Min
                    /\ sum <= data[k].Counter.Max) =>
                        (last'.err = ErrNil /\ last'.num = sum)]_vars

\* Counter was called on a counter key whose entry the sweep had unloaded
C33_CounterAfterUnload ==
    /\ last.op = "Counter"
    /\ last.existed
    /\ ~last.pre.dataLoaded
    /\ last.pre.Counter.set
    /\ last.key \in DOMAIN g.written
    /\ ParseInt(g.written[last.key]).ok

---------------------------------------------------------------------------
(* EdgeSpec: a Store with no backing store whose callers count in steps of *)
(* one and of the largest and smallest int64                              *)

EdgeCfg ==
    [options |-> <<>>, unloadAfter |-> 0,
     evict |-> FALSE, canFail |-> FALSE,
     keysOf |-> [t \in Callers |-> {K1}],
     vals |-> {<<"a">>},
     deltas |-> {1, -1, MaxInt64, MinInt64},
     ttls |-> {1},
     limits |-> {<<0, 2>>}]

EdgeInit == InitWith(EdgeCfg)

EdgeNext ==
    \/ \E key \in AllKeys, delta \in cfg.deltas, fail \in FailSets :
            Counter(key, delta, fail)
    \/ \E key \in AllKeys, fail \in FailSets : Delete(key, fail)
    \/ \E t \in Callers : \E key \in cfg.keysOf[t] : GetBegin(t, key)
    \/ \E t \in Callers : GetData(t)
    \/ \E t \in Callers : GetLoaded(t)
    \/ Tick

EdgeSpec == EdgeInit /\ [][EdgeNext]_vars

\* C35: Counter never stores or returns a wrapped-around value: on a counter
\* with the full int64 bounds and value x, Counter(k, delta) succeeds only
\* if x + delta is within [MinInt64, MaxInt64]; when the sum overflows the
\* call is rejected with a limit error and the value stays x
C35_NoWrapAround ==
    [][(/\ Ran("Counter")
        /\ last'.key \in DOMAIN data
        /\ data[last'.key].Counter = FullCounter
        /\ ParseInt(data[last'.key].Data).ok) =>
            LET k == last'.key
                sum == ParseInt(data[k].Data).val + last'.arg
                fits == sum >= MinInt64 /\ sum <= MaxInt64
            IN  /\ last'.err = ErrNil => (fits /\ last'.num = sum)
                /\ ~fits => (last'.err \in LimitErrors /\ data' = data)
                /\ k \in DOMAIN data' => ParseInt(data'[k].Data).val \in {
                        ParseInt(data[k].Data).val, sum}]_vars

\* Counter was called with a delta that takes the sum past MaxInt64
C35_PastMax ==
    /\ last.op = "Counter"
    /\ last.existed
    /\ last.pre.Counter = FullCounter
    /\ ParseInt(last.pre.Data).ok
    /\ ParseInt(last.pre.Data).val + last.arg > MaxInt64

---------------------------------------------------------------------------
(* PlugSpec: a Store built over a DataPersister written by the user of the *)
(* package, which holds whole ValueItems and hands them out as they are:   *)
(* one of them was put there with a numeric payload and no counter bounds, *)
(* as &ValueItem{Data: []byte("1")}                                        *)

\* the item the persister holds for K1
SeededItem == [ZeroItem EXCEPT !.Data = <<"1">>]

\* the persister, seeded
SeededPersister ==
    [NewPersister(1, FALSE) EXCEPT
        !.dirs = {K1},
        !.meta = Put(EmptyMap, K1, Meta(SeededItem)),
        !.dat = Put(EmptyMap, K1, SeededItem.Data)]

\* Read(key, readValue) of that persister: the item it holds, payload
\* included whatever readValue says
plugRead(p, key) ==
    [Data |-> p.dat[key], Counter |-> p.meta[key].Counter,
     Ts |-> p.meta[key].Ts, TTL |-> p.meta[key].TTL, dataLoaded |-> FALSE]

PlugCfg ==
    [options |-> <<<<SeededPersister>>>>, unloadAfter |-> 0,
     evict |-> FALSE, canFail |-> FALSE,
     keysOf |-> [t \in Callers |-> {K1}],
     vals |-> {<<"a">>, <<"2">>},
     deltas |-> {1},
     ttls |-> {1},
     limits |-> {<<0, 2>>}]

\* NewStore: kv.data[k] = mv for each key the persister lists
PlugInit ==
    /\ cfg = PlugCfg
    /\ now = 0
    /\ ps = Configure(<<>>, PlugCfg.options)
    /\ data = [k \in fsKeys(ps[1]) |-> plugRead(ps[1], k)]
    /\ last = Returned("NewStore", <<>>)
    /\ pc = [t \in Callers |-> "idle"]
    /\ loc = [t \in Callers |-> IdleLoc]
    /\ sweep = IdleSweep
    /\ crashed = FALSE
    /\ nops = 0
    /\ g = NoHistory

PlugNext ==
    \/ \E key \in AllKeys, value \in cfg.vals, fail \in FailSets :
            Set(key, value, fail)
    \/ \E key \in AllKeys, fail \in FailSets : Delete(key, fail)
    \/ \E key \in AllKeys, ttl \in cfg.ttls, fail \in FailSets :
            SetTTL(key, ttl, fail)
    \/ \E key \in AllKeys, fail \in FailSets : Touch(key, fail)
    \/ \E key \in AllKeys, delta \in cfg.deltas, fail \in FailSets :
            Counter(key, delta, fail)
    \/ \E key \in AllKeys, lim \in cfg.limits, fail \in FailSets :
            SetCounterLimits(key, lim, fail)
    \/ \E key \in AllKeys : InMemory(key)
    \/ \E key \in AllKeys : TTL(key)
    \/ Tick

PlugSpec == PlugInit /\ [][PlugNext]_vars

\* C34: Counter(k, delta) on an existing key whose payload parses as an
\* integer and whose counter bounds are not set returns a non-nil
\* "boundaries not set" error and leaves the entry unchanged
C34_BoundsUnsetError ==
    [][(/\ Ran("Counter")
        /\ last'.key \in DOMAIN data
        /\ ParseInt(data[last'.key].Data).ok
        /\ ~data[last'.key].Counter.set) =>
            /\ last'.err # ErrNil
            /\ data' = data
            /\ ps' = ps]_vars

\* Counter was called on a key with a numeric payload and no bounds
C34_NumberWithoutBounds ==
    /\ last.op = "Counter"
    /\ last.existed
    /\ ParseInt(last.pre.Data).ok
    /\ ~last.pre.Counter.set
    /\ data[last.key] = last.pre

---------------------------------------------------------------------------
(* Claims about the two phases of the eviction sweep, checked on Spec *)

\* the sweep leaves its mutation phase in this step
Mutated == sweep.pc = "mutate" /\ sweep'.pc # "mutate"

\* C36: a sweep deletes or unloads only entries that still qualify when it
\* mutates them: a key rewritten between the scan and the mutation phase
\* that is no longer expired is not deleted, and a key rewritten in that
\* window does not lose its fresh payload to an unload
C36_SweepRechecks ==
    [][Mutated =>
        \A k \in DOMAIN data :
            /\ k \notin DOMAIN data' => expired(data[k], now)
            /\ (/\ k \in DOMAIN data'
                /\ data[k].dataLoaded
                /\ ~data'[k].dataLoaded) =>
                    unload(data[k], now, cfg.unloadAfter)]_vars

\* a key the scan has classified was rewritten by a Set before the
\* mutation phase and qualifies no longer
C36_RewrittenInWindow ==
    /\ sweep.pc = "mutate"
    /\ last.op = "Set"
    /\ last.err = ErrNil
    /\ last.key \in sweep.deletionKeys \cup sweep.unloadKeys
    /\ last.key \in DOMAIN data
    /\ ~expired(data[last.key], now)
    /\ ~unload(data[last.key], now, cfg.unloadAfter)

\* C37: an eviction sweep never crashes the process, also when a Delete
\* removes a key the sweep has classified for unloading between the scan
\* and the mutation phase: the sweep completes and the task keeps running
C37_SweepNeverCrashes ==
    [][Mutated => (~crashed' /\ sweep'.pc = "idle")]_vars

\* a key the scan has classified for unloading was deleted before the
\* mutation phase
C37_DeletedInWindow ==
    /\ sweep.pc = "mutate"
    /\ last.op = "Delete"
    /\ last.err = ErrNil
    /\ last.key \in sweep.unloadKeys
    /\ last.key \notin DOMAIN data
    /\ ~crashed

---------------------------------------------------------------------------
(* Claims about the Buffer and the Close of its backing store, checked on  *)
(* BufferSpec                                                              *)

\* C38: the Buffer never invokes Write, Read or Delete on the underlying
\* backing store after it has called that store's Close: during and after
\* Buffer.Close no queued or in-flight command is executed against a
\* backing store that is closed already
C38_NoCallAfterClose ==
    [][\A i \in DOMAIN ps :
        (ps[i].inflight # <<>> /\ ps'[i].inflight = <<>>) =>
            ~ps[i].closed]_vars

\* the backing store is closed and the consumer holds a command it has yet
\* to execute
C38_InFlightAtClose ==
    /\ ps[1].closed
    /\ ps[1].inflight # <<>>
    /\ ~crashed

---------------------------------------------------------------------------
(* AliasSpec: a Store with no backing store whose callers keep the slices  *)
(* they passed to Set and got from Get, and write into them.  No key is    *)
(* deleted, so the slice of the last call is the payload of the entry.     *)

AliasCfg ==
    [options |-> <<>>, unloadAfter |-> 0,
     evict |-> FALSE, canFail |-> FALSE,
     keysOf |-> [t \in Callers |-> {K1}],
     vals |-> {<<"a">>, <<"b">>},
     deltas |-> {1},
     ttls |-> {1},
     limits |-> {<<0, 2>>}]

AliasInit == InitWith(AliasCfg)

\* the bytes of a slice after the caller has overwritten each of them
Overwritten(b) == [i \in 1..Len(b) |-> "x"]

\* the caller of the last Set, or of the last Get, writes into the slice it
\* passed or was given: Set stored the slice itself (mv.Data = dataBytes)
\* and Get returned the slice itself (return mv.Data, nil), so the bytes
\* are those of the entry.  last.flag: the slice came from Get.
Scribble ==
    /\ CanCall
    /\ last.op \in {"Set", "Get"}
    /\ last.err = ErrNil
    /\ last.key \in DOMAIN data
    /\ data[last.key].dataLoaded
    /\ data[last.key].Data # NilData
    /\ data[last.key].Data = IF last.op = "Set" THEN last.argv ELSE last.val
    /\ Commit(Result([data EXCEPT ![last.key].Data = Overwritten(@)], ps,
                     ErrNil, 0),
              [Called("Scribble", last.key, {}) EXCEPT
                    !.flag = last.op = "Get"],
              g, {}, {})

AliasNext ==
    \/ \E key \in AllKeys, value \in cfg.vals, fail \in FailSets :
            Set(key, value, fail)
    \/ \E t \in Callers : \E key \in cfg.keysOf[t] : GetBegin(t, key)
    \/ \E t \in Callers : GetData(t)
    \/ \E t \in Callers : GetLoaded(t)
    \/ Scribble

AliasSpec == AliasInit /\ [][AliasNext]_vars

\* C39: Get returns a defensive copy and the Store owns its payload:
\* changing the bytes of a slice returned by Get(k), or of the slice passed
\* to Set(k, v) after Set returned, does not change what a later Get(k)
\* returns
C39_StoreOwnsPayload ==
    [][Ran("Scribble") =>
        GetSeq(data', ps', last'.key, now) =
            GetSeq(data, ps, last'.key, now)]_vars

\* a caller has written into the slice that Get returned to it
C39_WroteIntoResult ==
    /\ last.op = "Scribble"
    /\ last.flag
    /\ last.key \in DOMAIN data

---------------------------------------------------------------------------
(* LockSpec: the Store's RWMutex made explicit.  A caller inside Set holds *)
(* kv.lock from Lock() to the deferred Unlock(), a caller inside Keys      *)
(* holds it shared from RLock() to RUnlock(), and a caller inside          *)
(* QueryKeys ranges over kv.data holding nothing.                          *)

LockCfg ==
    [options |-> <<>>, unloadAfter |-> 0,
     evict |-> FALSE, canFail |-> FALSE,
     keysOf |-> [t \in Callers |-> {CallerKey(t)}],
     vals |-> {<<"a">>},
     deltas |-> {1},
     ttls |-> {1},
     limits |-> {<<0, 2>>}]

LockInit == InitWith(LockCfg)

\* the callers that hold kv.lock exclusively, and those that hold it shared
Writers == {t \in Callers : pc[t] = "setLocked"}

Readers == {t \in Callers : pc[t] = "keysLocked"}

\* Set: KeyValid, then kv.lock.Lock(); loc[t].res.mv carries the value
SetLock(t, key, value) ==
    /\ CanCall
    /\ pc[t] = "idle"
    /\ KeyValid(key)
    /\ Writers = {}
    /\ Readers = {}
    /\ pc' = [pc EXCEPT ![t] = "setLocked"]
    /\ loc' = [loc EXCEPT ![t] =
                [IdleLoc EXCEPT !.key = key,
                                !.res = [mv |-> [ZeroItem EXCEPT !.Data = value],
                                         err |-> ErrNil]]]
    /\ nops' = nops + 1
    /\ UNCHANGED <<cfg, now, data, ps, sweep, crashed, last, g>>

\* Set: kv.setData(key, value) and the deferred kv.lock.Unlock()
SetUnlock(t) ==
    /\ ~crashed
    /\ pc[t] = "setLocked"
    /\ LET r == setData(data, ps, loc[t].key, loc[t].res.mv.Data, now, {})
       IN  /\ data' = r.data
           /\ ps' = r.ps
           /\ last' = [Returned("Set", loc[t].key) EXCEPT
                            !.err = r.err, !.argv = loc[t].res.mv.Data,
                            !.dom = DOMAIN r.data]
    /\ pc' = [pc EXCEPT ![t] = "idle"]
    /\ loc' = [loc EXCEPT ![t] = IdleLoc]
    /\ UNCHANGED <<cfg, now, sweep, crashed, nops, g>>

\* Keys: kv.lock.RLock()
KeysLock(t) ==
    /\ CanCall
    /\ pc[t] = "idle"
    /\ Writers = {}
    /\ pc' = [pc EXCEPT ![t] = "keysLocked"]
    /\ nops' = nops + 1
    /\ UNCHANGED <<cfg, now, data, ps, loc, sweep, crashed, last, g>>

\* Keys: the loop over kv.data and the deferred kv.lock.RUnlock()
KeysUnlock(t, order) ==
    /\ ~crashed
    /\ pc[t] = "keysLocked"
    /\ last' = [Returned("Keys", <<>>) EXCEPT
                    !.keys = StoreKeys(data, order), !.dom = DOMAIN data]
    /\ pc' = [pc EXCEPT ![t] = "idle"]
    /\ UNCHANGED <<cfg, now, data, ps, loc, sweep, crashed, nops, g>>

\* QueryKeys(from, to) on map d at time t
StoreQueryKeys(d, from, to, t) ==
    {k \in DOMAIN d :
        /\ ~expired(d[k], t)
        /\ d[k].Ts >= from
        /\ d[k].Ts <= to}

\* QueryKeys: the range over kv.data begins; no lock is taken
QueryKeysBegin(t) ==
    /\ CanCall
    /\ pc[t] = "idle"
    /\ pc' = [pc EXCEPT ![t] = "queryRange"]
    /\ nops' = nops + 1
    /\ UNCHANGED <<cfg, now, data, ps, loc, sweep, crashed, last, g>>

\* QueryKeys: the range ends and the keys are returned.  When a writer
\* holds the lock the range has run beside its map writes, a data race:
\* the runtime may stop the process (concurrent map iteration and map
\* write) or the loop may have seen any part of the map.
QueryKeysEnd(t, from, to, seen) ==
    /\ ~crashed
    /\ pc[t] = "queryRange"
    /\ IF Writers = {}
       THEN /\ seen = StoreQueryKeys(data, from, to, now)
            /\ UNCHANGED crashed
            /\ pc' = [pc EXCEPT ![t] = "idle"]
            /\ last' = [Returned("QueryKeys", <<>>) EXCEPT
                            !.lo = from, !.hi = to, !.dom = seen]
       ELSE \/ /\ crashed' = TRUE
               /\ UNCHANGED <<pc, last>>
            \/ /\ UNCHANGED crashed
               /\ pc' = [pc EXCEPT ![t] = "idle"]
               /\ last' = [Returned("QueryKeys", <<>>) EXCEPT
                            !.lo = from, !.hi = to, !.dom = seen,
                            !.flag = TRUE]
    /\ UNCHANGED <<cfg, now, data, ps, loc, sweep, nops, g>>

LockNext ==
    \/ \E t \in Callers : \E key \in cfg.keysOf[t], value \in cfg.vals :
            SetLock(t, key, value)
    \/ \E t \in Callers : SetUnlock(t)
    \/ \E t \in Callers : KeysLock(t)
    \/ \E t \in Callers : \E order \in Perms(DOMAIN data) :
            KeysUnlock(t, order)
    \/ \E t \in Callers : QueryKeysBegin(t)
    \/ \E t \in Callers : \E from \in 0..MaxTime, to \in 0..MaxTime :
            \E seen \in SUBSET AllKeys : QueryKeysEnd(t, from, to, seen)
    \/ Tick

LockSpec == LockInit /\ [][LockNext]_vars

\* the callers that are reading the map
Touching == {t \in Callers : pc[t] \in {"keysLocked", "queryRange"}}

\* C31: the in-memory map is never read or written without the Store lock
\* held at least in shared mode: no operation touches the map while another
\* holds the exclusive lock and is mutating it
C31_MapUnderLock ==
    Writers # {} => (Touching = {} /\ Cardinality(Writers) = 1)

\* a QueryKeys is ranging over a map that holds a key
C31_QueryRanging ==
    /\ \E t \in Callers : pc[t] = "queryRange"
    /\ data # EmptyMap
    /\ ~crashed

=============================================================================
